---- MODULE Spec2Model ----
(***************************************************************************)
(* A model of the GitHub pull-request crawler (crawler.py): the fetcher    *)
(* with its retry loop (_get / _try_to_get), the page-boundary searches    *)
(* (_get_starting_page, _find_start_page, _get_ending_page,                *)
(* _find_end_page), the crawl loop over the pulls and the issues streams   *)
(* (Crawler.crawl), the SIGINT handler and main's loop over repositories;  *)
(* and of the exporter (writer.py): the attribution of a diff to sections  *)
(* (_get_section_changes) and the rows of write_dataset.                   *)
(*                                                                         *)
(* Time is scaled: item k of a stream (1-based, in creation order) was     *)
(* created at instant 2*k, so that odd instants fall between two items.    *)
(* The server is the environment: every response to requests.get is drawn  *)
(* from Responses, every non-ok response counting against MaxFaults.       *)
(***************************************************************************)
EXTENDS Integers, Sequences, FiniteSets

\* ------------------------------------------------------------------ bounds
\* items per list page (per_page, 1..100 in the program)
PerPage == 2
\* max_request_tries of the invocations
MaxTries == 2
\* non-ok responses the server gives in one run at most
MaxFaults == 2
\* frames the interpreter allows a boundary search to nest (sys recursion limit)
MaxDepth == 4

\* ------------------------------------------------------- program constants
\* request_retry_wait_secs, the default of Crawler.__init__
RetryWait == 10

Streams == {"pulls", "issues"}
\* X-Ratelimit-Reset - time.time() of a rate-limited response: the reset lies
\* behind the crawler's clock, is now, or is to come
ResetDeltas == {-2, 0, 5}
Responses == {"ok", "notfound", "ratelimited", "error", "neterr", "envelope"}

\* ------------------------------------------------------------ service data
\* created_at of the k-th item of a stream (ascending, as sort=created asc)
CreatedAt(k) == 2 * k
\* the service's data epoch (2015-01-01) in scaled time: before every item
Epoch == 1
\* items in a stream at most: a full page and a short one
MaxItems == PerPage + 1
\* time.time() during the run: after every item was created
Now == 2 * MaxItems + 1

\* the items (1-based positions in the stream) on page p of a stream of n items
PageItems(n, p) ==
    { k \in 1 .. n : (p - 1) * PerPage < k /\ k <= p * PerPage }
PageLen(n, p) == Cardinality(PageItems(n, p))
\* the page number of rel="last" in the Link header of page 1
LastPage(n) == IF n = 0 THEN 1 ELSE (n + PerPage - 1) \div PerPage
Min(S) == CHOOSE x \in S : \A y \in S : x <= y
Max(S) == CHOOSE x \in S : \A y \in S : x >= y

\* ------------------------------------------------------------- invocations
\* the repositories named on the command line, in argument order: one, or two
OneRepo == <<"o/r1">>
TwoRepos == <<"o/r1", "o/r2">>
\* sizes of the two streams: a full page and a short one, a full page and
\* nothing after it, a short first page, an empty stream
Sizes ==
    { [pulls |-> PerPage + 1, issues |-> PerPage],
      [pulls |-> PerPage, issues |-> PerPage + 1],
      [pulls |-> PerPage, issues |-> 1],
      [pulls |-> 1, issues |-> 0] }
\* crawl windows (start_date, end_date): all of the stream, without its first
\* item, without its last items, a window that ends after time.time()
Windows == {<<0, Now + 1>>, <<3, Now + 1>>, <<0, 4>>, <<2 * PerPage + 2, Now>>}
\* max_issue_number: -1 (the default, no cap) or a cap
Caps == {-1, 1}

\* the sizes with a stream of two pages
TwoPageSizes == { nn \in Sizes : \E s \in Streams : nn[s] > PerPage }
\* page arguments (start page, end page): resume at page 2, or page 1 only
GivenPages == {<<2, -1>>, <<1, 1>>}

Config(nn, w, sp, ep, cap, h) ==
    [ n |-> nn,                                   \* items in each stream
      hint |-> h,                                 \* page 1 carries rel="last"
      start_date |-> w[1],
      end_date |-> w[2],
      start_page |-> [s \in Streams |-> sp],      \* start_page_pulls, _issues
      end_page |-> [s \in Streams |-> ep],        \* end_page_pulls, _issues
      max_issue_number |-> cap,
      max_tries |-> MaxTries,                     \* max_request_tries
      repos |-> OneRepo ]                         \* args.repos

\* the invocations: the start pages given, or every boundary searched for,
\* or two streams of one full page each, crawled whole, or up to an instant
\* between their first two items, or up to an instant before their first
Scenarios ==
    { Config(nn, w, 1, -1, cap, TRUE) :
        nn \in Sizes, w \in {<<3, Now + 1>>, <<0, 4>>}, cap \in Caps }
    \cup { Config(nn, w, -1, -1, -1, h) : nn \in Sizes, w \in Windows, h \in BOOLEAN }
    \cup { Config([pulls |-> PerPage, issues |-> PerPage], <<0, Now + 1>>,
                   -1, -1, cap, TRUE) : cap \in Caps }
    \cup { Config([pulls |-> PerPage, issues |-> PerPage], w, -1, -1, -1, TRUE) :
               w \in {<<0, 3>>, <<0, 1>>} }
    \cup { Config(nn, <<0, Now + 1>>, pp[1], pp[2], -1, TRUE) :
               nn \in TwoPageSizes, pp \in GivenPages }

\* invocations with two repositories (both with streams of the same sizes)
RepoScenarios ==
    { [c EXCEPT !.repos = TwoRepos] :
        c \in { Config([pulls |-> PerPage + 1, issues |-> PerPage], <<3, Now + 1>>,
                       1, -1, 1, TRUE),
                Config([pulls |-> PerPage + 1, issues |-> PerPage], <<0, 4>>,
                       -1, -1, -1, TRUE),
                Config([pulls |-> PerPage, issues |-> PerPage], <<0, 3>>,
                       -1, -1, -1, TRUE) } }

\* ------------------------------------------------------------- pull bodies
\* A body is None or a text, a sequence of phrases
\* "<word> <form><digits><glued>": form is "#", "short" (owner/repo#) or
\* "url" (https://github.com/owner/repo/issues/), repo the repository a
\* short or url form names, glued whether a word character follows the digits.
NoBody == [none |-> TRUE, text |-> <<>>]
Text(t) == [none |-> FALSE, text |-> t]
Phrase(w, f, r, d, g) == [word |-> w, form |-> f, repo |-> r, digits |-> d, glued |-> g]
\* the body of pull k of the repository full_name
Body(k, full_name) ==
    IF k % 3 = 1
    THEN Text(<< Phrase("see", "#", "", <<1>>, FALSE),
                 Phrase("Fixes", "#", "", <<k + 1>>, FALSE) >>)
    ELSE IF k % 3 = 2 THEN NoBody
    ELSE Text(<< Phrase("closes", "#", "", <<1>>, FALSE),
                 Phrase("fix", "short", "other/repo", <<2>>, FALSE),
                 Phrase("fixed", "#", "", <<2>>, TRUE),
                 Phrase("RESOLVED", "url", full_name, <<0, 1>>, FALSE) >>)

\* the alternatives of the keyword group of _linked_issues_pattern_template
Keywords ==
    {"close", "closes", "closed", "fix", "fixes", "fixed",
     "resolve", "resolves", "resolved"}
\* re.IGNORECASE, on the words of the bodies
Lower(w) ==
    CASE w = "Fixes" -> "fixes"
      [] w = "RESOLVED" -> "resolved"
      [] OTHER -> w
\* int(n) of a string of decimal digits
RECURSIVE ToInt(_)
ToInt(d) ==
    IF d = <<>> THEN 0
    ELSE 10 * ToInt(SubSeq(d, 1, Len(d) - 1)) + d[Len(d)]
\* the regex of _make_linked_issues_regex(owner, repo) matches the phrase
Matches(ph, full_name) ==
    /\ Lower(ph.word) \in Keywords
    /\ ph.form = "#" \/ (ph.form \in {"short", "url"} /\ ph.repo = full_name)
    /\ Len(ph.digits) >= 1
    /\ ~ph.glued

\* linked_issues_regex.findall(text), each group through int()
RECURSIVE Findall(_, _)
Findall(text, full_name) ==
    IF text = <<>> THEN <<>>
    ELSE LET front == Findall(SubSeq(text, 1, Len(text) - 1), full_name)
             ph == text[Len(text)]
         IN IF Matches(ph, full_name) THEN Append(front, ToInt(ph.digits))
            ELSE front

\* the numbers of a sequence, each at its first place only
RECURSIVE Once(_)
Once(q) ==
    IF q = <<>> THEN <<>>
    ELSE LET front == Once(SubSeq(q, 1, Len(q) - 1)) IN
         IF \E i \in 1 .. Len(front) : front[i] = q[Len(q)] THEN front
         ELSE Append(front, q[Len(q)])
\* a faulty extraction that names every issue once
ExtractLinkedIssueNumbersOnce(pull_body, full_name) ==
    IF pull_body.none THEN <<>> ELSE Once(Findall(pull_body.text, full_name))

\* _extract_linked_issue_numbers: [] for no body, else int(n) for every
\* match of findall, in the order of the matches
ExtractLinkedIssueNumbers(pull_body, full_name) ==
    IF pull_body.none THEN <<>> ELSE Findall(pull_body.text, full_name)

VARIABLES
    cfg,          \* the invocation: streams, window, page arguments, limits
    pc,           \* where main / crawl stand
    repoIdx,      \* main's position in args.repos
    interrupted,  \* Crawler._interrupted
    signals,      \* SIGINTs delivered since the flag was last clear
    stopIdx,      \* idx when the flag was last set, if the item there was not yet saved; else 0
    startPage,    \* crawl's start_page_pulls / start_page_issues
    endPage,      \* crawl's end_page_pulls / end_page_issues
    stage,        \* which of the four boundaries crawl is resolving (1..4); 5: all are
    lo, hi,       \* _find_start_page / _find_end_page: start, end
    depth,        \* nested _find_*_page frames
    page,         \* crawl's page
    idx,          \* position of the for loop in the fetched page (1-based)
    lnk,          \* position of the for loop in linked_issue_numbers
    num_issues,
    num_pulls,
    list_issues,  \* keys of crawl's list_issues
    store,        \* files written: <<repo, kind, number>>
    pull_files,   \* linked_issue_numbers of each pull-N.json written, by <<repo, N>>
    iterPages,    \* list pages the page loops asked for in this crawl: <<stream, page>>
    missed,       \* urls that came back absent (404) to this crawl; a linked
                  \* issue's is logged as <<"linked", "issues", number>>
    fpc,          \* _get: "idle", "try" (about to call _try_to_get), "ret"
    url,          \* the argument of the running _get
    tries,        \* _get's local tries
    attempts,     \* calls of requests.get made by the running _get
    sleepLog,     \* the time.sleep calls of the running _get: <<why, secs>>
    respLog,      \* the responses the running _get received: [kind, delta]
    lastReq,      \* the url of the last requests.get
    fres,         \* what _get returned: [r, ok]
    faults,       \* non-ok responses so far
    exc,          \* the exception that ended the last crawl, or "none"
    diff,             \* _get_section_changes: the lines of its diff argument
    line_no,          \* lines of diff the for loop has dealt with
    section_data,     \* pull['section_data']
    current_section,  \* index into _sections (1-based)
    current_filename,
    wargs,            \* write_dataset's arguments: src_dir, limit_rows, the dates
    wpc,              \* where write_dataset stands
    wi,               \* its position in owner_repo_pairs (1-based)
    wj,               \* its position in the sorted pull numbers
    wl,               \* its position in pull['linked_issue_numbers']
    wk,               \* its position in the sorted issue numbers
    pull,             \* the pull read last, sorted and with its section_data
    issue_list,       \* keys of write_dataset's issue_list
    rows,             \* the data rows written to dst_file: <<repo, issue, pull or 0>>
    total_num_rows

fetchVars == <<fpc, url, tries, attempts, sleepLog, respLog, lastReq, fres, faults>>
searchVars == <<stage, lo, hi, depth>>
loopVars == <<page, idx, lnk, num_issues, num_pulls, list_issues>>
crawlVars ==
    <<cfg, pc, repoIdx, interrupted, signals, stopIdx, startPage, endPage,
      searchVars, loopVars, store, pull_files, iterPages, missed, fetchVars, exc>>
sectionVars == <<diff, line_no, section_data, current_section, current_filename>>
\* the variables of writer.py
writerVars == <<wargs, wpc, wi, wj, wl, wk, pull, issue_list, rows, total_num_rows>>
exportVars == <<sectionVars, writerVars>>
vars == <<crawlVars, exportVars>>

NoUrl == <<"none", "none", 0>>
NoResult == [r |-> "none", ok |-> FALSE]
\* args.repos
Repos == cfg.repos

\* the crawler with main at `at', for an invocation of S, nothing crawled yet
CrawlerAt(S, at) ==
    /\ cfg \in S
    /\ pc = at
    /\ repoIdx = 1
    /\ interrupted = FALSE
    /\ signals = 0
    /\ stopIdx = 0
    /\ startPage = [s \in Streams |-> -1]
    /\ endPage = [s \in Streams |-> -1]
    /\ stage = 1 /\ lo = 0 /\ hi = 0 /\ depth = 0
    /\ page = 0 /\ idx = 0 /\ lnk = 0
    /\ num_issues = 0 /\ num_pulls = 0 /\ list_issues = {}
    /\ store = {}
    /\ pull_files = [key \in {} |-> <<>>]
    /\ iterPages = <<>>
    /\ missed = {}
    /\ fpc = "idle" /\ url = NoUrl /\ tries = 0 /\ attempts = 0
    /\ sleepLog = <<>> /\ respLog = <<>> /\ lastReq = NoUrl
    /\ fres = NoResult /\ faults = 0
    /\ exc = "none"

\* writer.py is not running
NoSections ==
    /\ diff = <<>> /\ line_no = 0 /\ section_data = <<>>
    /\ current_section = 0 /\ current_filename = <<>>
NoPull == [number |-> 0, linked_issue_numbers |-> <<>>, section_data |-> <<>>]
NoWriter ==
    /\ wargs = [src_dir |-> <<>>, limit_rows |-> 0, start_date |-> 0, end_date |-> 0]
    /\ wpc = "w_off"
    /\ wi = 0 /\ wj = 0 /\ wl = 0 /\ wk = 0
    /\ pull = NoPull
    /\ issue_list = {}
    /\ rows = <<>>
    /\ total_num_rows = 0
ExportIdle == NoSections /\ NoWriter

\* the state when main enters its loop over args.repos, for an invocation of S
InitOf(S) == CrawlerAt(S, "main") /\ ExportIdle

Init == InitOf(Scenarios)
\* an invocation that names two repositories
InitRepos == InitOf(RepoScenarios)

\* ----------------------------------------------------------------- helpers
\* how many responses of the kinds ks the running _get has received
CountKind(log, ks) == Cardinality({ i \in 1 .. Len(log) : log[i].kind \in ks })
Last(q) == q[Len(q)]

\* round((start + end)/2) of Python 3: a half rounds to the even neighbour
PyRoundHalf(s) ==
    IF s % 2 = 0 THEN s \div 2
    ELSE IF (s \div 2) % 2 = 0 THEN s \div 2 ELSE (s \div 2) + 1

\* self._get(u) is entered: tries = 0
Call(u) ==
    /\ fpc' = "try"
    /\ url' = u
    /\ tries' = 0
    /\ attempts' = 0
    /\ sleepLog' = <<>>
    /\ respLog' = <<>>
    /\ fres' = NoResult
    /\ UNCHANGED <<lastReq, faults>>

\* the caller has taken _get's result; _get's frame is gone
Taken ==
    /\ fpc' = "idle"
    /\ url' = NoUrl
    /\ tries' = 0
    /\ attempts' = 0
    /\ sleepLog' = <<>>
    /\ respLog' = <<>>
    /\ fres' = NoResult
    /\ UNCHANGED <<lastReq, faults>>

\* an exception leaves crawl() and reaches main's except clause
Raise(e) ==
    /\ pc' = "except"
    /\ exc' = e

\* ------------------------------------------------------------- the fetcher
\* the wait of a rate-limited response: X-Ratelimit-Reset - time.time() + 1
RatelimitWait(delta) == delta + 1

\* a faulty _try_to_get that treats a 404 as any other failed request
TryToGetRetrying404(resp) ==
    CASE resp.kind \in {"neterr", "envelope"} -> "None"
      [] resp.kind = "ratelimited" ->
            IF RatelimitWait(resp.delta) < 0 THEN "None" ELSE "Recurse"
      [] resp.kind \in {"error", "notfound"} -> "NoneFalse"
      [] OTHER -> "RTrue"

\* what _try_to_get does with one response of the server
TryToGet(resp) ==
    CASE resp.kind = "neterr"      -> "None"        \* except Exception: return None
      [] resp.kind = "notfound"    -> "EmptyFalse"  \* return {}, False
      [] resp.kind = "ratelimited" ->
            \* time.sleep of a negative wait raises ValueError inside the try:
            \* return None; else sleep, return self._try_to_get(url)
            IF RatelimitWait(resp.delta) < 0 THEN "None" ELSE "Recurse"
      [] resp.kind = "error"       -> "NoneFalse"   \* return None, False
      [] resp.kind = "envelope"    -> "None"        \* 'message' in r.json(): return None
      [] OTHER                     -> "RTrue"       \* return r, True

\* what the server may answer: only a rate-limited response names a reset
ServerResponses ==
    { [kind |-> k, delta |-> 0] : k \in Responses \ {"ratelimited"} }
    \cup { [kind |-> "ratelimited", delta |-> d] : d \in ResetDeltas }

\* requests.get(url) is called and the server answers resp
Request(resp) ==
    /\ fpc = "try"
    /\ pc \notin {"exit", "finished"}
    /\ resp.kind # "ok" => faults < MaxFaults
    /\ faults' = IF resp.kind = "ok" THEN faults ELSE faults + 1
    /\ attempts' = attempts + 1
    /\ lastReq' = url
    /\ respLog' = Append(respLog, resp)

\* a faulty _get that forgets tries += 1
CountTryForgotten(t) == t
\* tries += 1
CountTry(t) == t + 1
\* a faulty _get that allows one failure more than max_request_tries
ExhaustedLate(t) == t > cfg.max_tries
\* _get's test after tries += 1
Exhausted(t) == t >= cfg.max_tries
\* time.sleep(self.request_retry_wait_secs)
RetrySleep == <<"retry", RetryWait>>

\* _try_to_get returns (r, True) or ({}, False): _get returns it at once
GetReturns ==
    \E resp \in ServerResponses :
        /\ Request(resp)
        /\ TryToGet(resp) \in {"RTrue", "EmptyFalse"}
        /\ fpc' = "ret"
        /\ fres' = IF TryToGet(resp) = "RTrue"
                   THEN [r |-> "response", ok |-> TRUE]
                   ELSE [r |-> "empty", ok |-> FALSE]
        /\ UNCHANGED <<url, tries, sleepLog>>
        /\ UNCHANGED <<exportVars, cfg, pc, repoIdx, interrupted, signals, stopIdx, startPage, endPage,
                       searchVars, loopVars, store, pull_files, iterPages, missed, exc>>

\* a rate-limited response: _try_to_get sleeps and calls itself
GetRateLimited ==
    \E resp \in ServerResponses :
        /\ Request(resp)
        /\ TryToGet(resp) = "Recurse"
        /\ sleepLog' = Append(sleepLog, <<"ratelimit", RatelimitWait(resp.delta)>>)
        /\ UNCHANGED <<fpc, url, tries, fres>>
        /\ UNCHANGED <<exportVars, cfg, pc, repoIdx, interrupted, signals, stopIdx, startPage, endPage,
                       searchVars, loopVars, store, pull_files, iterPages, missed, exc>>

\* _try_to_get returns (None, False): _get counts a try, then sleeps or raises
GetFailed ==
    \E resp \in ServerResponses :
        /\ Request(resp)
        /\ TryToGet(resp) = "NoneFalse"
        /\ tries' = CountTry(tries)
        /\ IF Exhausted(CountTry(tries))
           THEN /\ Raise("TooManyRequestFailures")
                /\ fpc' = "idle"
                /\ UNCHANGED sleepLog
           ELSE /\ sleepLog' = Append(sleepLog, RetrySleep)
                /\ UNCHANGED <<fpc, pc, exc>>
        /\ UNCHANGED <<url, fres>>
        /\ UNCHANGED <<exportVars, cfg, repoIdx, interrupted, signals, stopIdx, startPage, endPage,
                       searchVars, loopVars, store, pull_files, iterPages, missed>>

\* _try_to_get returns a bare None: "r, ok = None" raises TypeError in _get
GetCrashed ==
    \E resp \in ServerResponses :
        /\ Request(resp)
        /\ TryToGet(resp) = "None"
        /\ Raise("TypeError")
        /\ fpc' = "idle"
        /\ UNCHANGED <<url, tries, sleepLog, fres>>
        /\ UNCHANGED <<exportVars, cfg, repoIdx, interrupted, signals, stopIdx, startPage, endPage,
                       searchVars, loopVars, store, pull_files, iterPages, missed>>

\* ------------------------------------------------------ main and SIGINT
\* the frames of crawl() and of what it calls are live
InCrawl == pc \notin {"main", "except", "returned", "exit", "finished"}

\* the for loop of a page stands at an item it has not saved yet
UnsavedItemPcs == {"p_item", "p_detail", "p_diff", "i_item", "i_detail"}

\* a faulty handler that never exits
SigintHandlerFlagOnly(flag) == [exit |-> FALSE, flag |-> TRUE]
\* sigint_handler: the second signal exits, the first sets the flag
SigintHandler(flag) ==
    IF flag THEN [exit |-> TRUE, flag |-> flag]
    ELSE [exit |-> FALSE, flag |-> TRUE]

Sigint ==
    /\ pc \notin {"exit", "finished"}
    /\ signals' = signals + 1
    /\ IF SigintHandler(interrupted).exit
       THEN /\ pc' = "exit"
            /\ UNCHANGED <<interrupted, stopIdx>>
       ELSE /\ interrupted' = SigintHandler(interrupted).flag
            /\ stopIdx' = IF pc \in UnsavedItemPcs THEN idx ELSE 0
            /\ pc' = pc
    /\ UNCHANGED <<exportVars, cfg, repoIdx, startPage, endPage, searchVars, loopVars,
                   store, pull_files, iterPages, missed, fetchVars, exc>>

\* main: crawler.crawl(owner, repo, ...) for the next repository
MainCrawl ==
    /\ pc = "main"
    /\ repoIdx <= Len(Repos)
    /\ startPage' = cfg.start_page
    /\ endPage' = cfg.end_page
    /\ stage' = 1
    /\ iterPages' = <<>>
    /\ missed' = {}
    /\ pc' = "bound"
    /\ UNCHANGED <<exportVars, cfg, repoIdx, interrupted, signals, stopIdx, lo, hi, depth, loopVars,
                   store, pull_files, fetchVars, exc>>

\* main: the for loop over args.repos is exhausted
MainDone ==
    /\ pc = "main"
    /\ repoIdx > Len(Repos)
    /\ pc' = "finished"
    /\ UNCHANGED <<exportVars, cfg, repoIdx, interrupted, signals, stopIdx, startPage, endPage,
                   searchVars, loopVars, store, pull_files, iterPages, missed, fetchVars, exc>>

\* a faulty main that stops at the first crawl that fails
MainExceptAborts ==
    /\ pc = "except"
    /\ pc' = "finished"
    /\ UNCHANGED <<exportVars, cfg, repoIdx, interrupted, signals, stopIdx, startPage, endPage,
                   searchVars, loopVars, store, pull_files, iterPages, missed, fetchVars, exc>>

\* a faulty main that deletes what the failed crawl had saved
MainExceptCleansUp ==
    /\ pc = "except"
    /\ repoIdx' = repoIdx + 1
    /\ pc' = "main"
    /\ store' = { key \in store : key[1] # Repos[repoIdx] }
    /\ UNCHANGED pull_files
    /\ UNCHANGED <<exportVars, cfg, interrupted, signals, stopIdx, startPage, endPage,
                   searchVars, loopVars, iterPages, missed, fetchVars, exc>>

\* main: except Exception as e: log, print, go on with the next repository
MainExcept ==
    /\ pc = "except"
    /\ repoIdx' = repoIdx + 1
    /\ pc' = "main"
    /\ UNCHANGED <<exportVars, cfg, interrupted, signals, stopIdx, startPage, endPage,
                   searchVars, loopVars, store, pull_files, iterPages, missed, fetchVars, exc>>

\* main: crawl() returned
MainReturned ==
    /\ pc = "returned"
    /\ repoIdx' = repoIdx + 1
    /\ pc' = "main"
    /\ UNCHANGED <<exportVars, cfg, interrupted, signals, stopIdx, startPage, endPage,
                   searchVars, loopVars, store, pull_files, iterPages, missed, fetchVars, exc>>

\* ------------------------------------------------------ boundary resolution
StageMode(k) == IF k <= 2 THEN "start" ELSE "end"
StageStream(k) == IF k \in {1, 3} THEN "pulls" ELSE "issues"
\* a faulty crawl that tests the end page for the start and the start page
\* for the end
StageArgSwapped ==
    IF StageMode(stage) = "start" THEN endPage[StageStream(stage)]
    ELSE startPage[StageStream(stage)]
StageArg == IF StageMode(stage) = "start" THEN startPage[StageStream(stage)]
            ELSE endPage[StageStream(stage)]

\* the next "if ..._page_... < 1" of crawl, or the lines after the four
NextStage ==
    /\ stage' = stage + 1
    /\ pc' = IF stage = 4 THEN "init" ELSE "bound"

\* the page argument is >= 1: the if is skipped
BoundaryGiven ==
    /\ pc = "bound"
    /\ ~(StageArg < 1)
    /\ NextStage
    /\ UNCHANGED <<exportVars, cfg, repoIdx, interrupted, signals, stopIdx, startPage, endPage, lo, hi,
                   depth, loopVars, store, pull_files, iterPages, missed, fetchVars, exc>>

\* start_page_... < 1: page 1 if the window starts before 2015, and then
\* self._get_starting_page(url) all the same
BoundaryStart ==
    /\ pc = "bound"
    /\ StageMode(stage) = "start"
    /\ StageArg < 1
    /\ startPage' = [startPage EXCEPT ![StageStream(stage)] =
                        IF cfg.start_date < Epoch THEN 1 ELSE @]
    /\ Call(<<"list", StageStream(stage), 1>>)
    /\ pc' = "hint"
    /\ UNCHANGED <<exportVars, cfg, repoIdx, interrupted, signals, stopIdx, endPage, searchVars,
                   loopVars, store, pull_files, iterPages, missed, exc>>

\* end_page_... < 1 and end_date > time.time(): no end page
BoundaryEndOpen ==
    /\ pc = "bound"
    /\ StageMode(stage) = "end"
    /\ StageArg < 1
    /\ cfg.end_date > Now
    /\ endPage' = [endPage EXCEPT ![StageStream(stage)] = -1]
    /\ NextStage
    /\ UNCHANGED <<exportVars, cfg, repoIdx, interrupted, signals, stopIdx, startPage, lo, hi, depth,
                   loopVars, store, pull_files, iterPages, missed, fetchVars, exc>>

\* end_page_... < 1 otherwise: self._get_ending_page(url)
BoundaryEnd ==
    /\ pc = "bound"
    /\ StageMode(stage) = "end"
    /\ StageArg < 1
    /\ ~(cfg.end_date > Now)
    /\ Call(<<"list", StageStream(stage), 1>>)
    /\ pc' = "hint"
    /\ UNCHANGED <<exportVars, cfg, repoIdx, interrupted, signals, stopIdx, startPage, endPage,
                   searchVars, loopVars, store, pull_files, iterPages, missed, exc>>

\* r.headers['Link'] when r is {} (a 404) or the header is not there
HintMissing ==
    /\ pc = "hint"
    /\ fpc = "ret"
    /\ fres.r = "empty" \/ ~cfg.hint
    /\ Raise(IF fres.r = "empty" THEN "AttributeError" ELSE "KeyError")
    /\ Taken
    /\ UNCHANGED <<exportVars, cfg, repoIdx, interrupted, signals, stopIdx, startPage, endPage,
                   searchVars, loopVars, store, pull_files, iterPages, missed>>

\* last_page read from the Link header: _find_..._page(url, 1, last_page)
\* is entered and asks for its middle page
HintFound ==
    /\ pc = "hint"
    /\ fpc = "ret"
    /\ fres.r # "empty" /\ cfg.hint
    /\ lo' = 1
    /\ hi' = LastPage(cfg.n[StageStream(stage)])
    /\ depth' = 1
    /\ Call(<<"list", StageStream(stage),
              PyRoundHalf(1 + LastPage(cfg.n[StageStream(stage)]))>>)
    /\ pc' = "probe"
    /\ UNCHANGED <<exportVars, cfg, repoIdx, interrupted, signals, stopIdx, startPage, endPage, stage,
                   loopVars, store, pull_files, iterPages, missed, exc>>

FirstDate(s, p) == CreatedAt(Min(PageItems(cfg.n[s], p)))
LastDate(s, p) == CreatedAt(Max(PageItems(cfg.n[s], p)))

\* a faulty frame that returns the page of a one-page interval as it is
FindStartPageNoAdvance(start, end, first_date, last_date) ==
    LET mid == PyRoundHalf(start + end) IN
    IF start = end
    THEN [ret |-> TRUE, val |-> mid]
    ELSE IF cfg.start_date < first_date
    THEN [ret |-> FALSE, start |-> start, end |-> mid]
    ELSE IF cfg.start_date > last_date
    THEN [ret |-> FALSE, start |-> mid, end |-> end]
    ELSE [ret |-> TRUE, val |-> mid]

\* one frame of _find_start_page after its page came: return a page, or
\* call itself on [start, mid] or on [mid, end]
FindStartPage(start, end, first_date, last_date) ==
    LET mid == PyRoundHalf(start + end) IN
    IF start = end
    THEN [ret |-> TRUE, val |-> IF cfg.start_date > last_date THEN mid + 1 ELSE mid]
    ELSE IF cfg.start_date < first_date
    THEN [ret |-> FALSE, start |-> start, end |-> mid]
    ELSE IF cfg.start_date > last_date
    THEN [ret |-> FALSE, start |-> mid, end |-> end]
    ELSE [ret |-> TRUE, val |-> mid]

\* one frame of _find_end_page after its page came
FindEndPage(start, end, first_date, last_date) ==
    LET mid == PyRoundHalf(start + end) IN
    IF start = end
    THEN [ret |-> TRUE, val |-> IF cfg.end_date < first_date THEN mid - 1 ELSE mid]
    ELSE IF cfg.end_date < first_date
    THEN [ret |-> FALSE, start |-> start, end |-> mid]
    ELSE IF cfg.end_date > last_date
    THEN [ret |-> FALSE, start |-> mid, end |-> end]
    ELSE [ret |-> TRUE, val |-> mid]

Mid == PyRoundHalf(lo + hi)
\* the frame's step, once pulls[0] and pulls[-1] could be read
Found ==
    IF StageMode(stage) = "start"
    THEN FindStartPage(lo, hi, FirstDate(StageStream(stage), Mid),
                       LastDate(StageStream(stage), Mid))
    ELSE FindEndPage(lo, hi, FirstDate(StageStream(stage), Mid),
                     LastDate(StageStream(stage), Mid))
ProbeReadable ==
    fres.ok /\ PageLen(cfg.n[StageStream(stage)], Mid) > 0

\* pulls[0] when pulls is {} (a 404) or an empty list
ProbeFailed ==
    /\ pc = "probe"
    /\ fpc = "ret"
    /\ ~ProbeReadable
    /\ Raise(IF ~fres.ok THEN "KeyError" ELSE "IndexError")
    /\ Taken
    /\ UNCHANGED <<exportVars, cfg, repoIdx, interrupted, signals, stopIdx, startPage, endPage,
                   searchVars, loopVars, store, pull_files, iterPages, missed>>

\* the search returns: the page is assigned to start_page_... / end_page_...
ProbeReturn ==
    /\ pc = "probe"
    /\ fpc = "ret"
    /\ ProbeReadable
    /\ Found.ret
    /\ IF StageMode(stage) = "start"
       THEN /\ startPage' = [startPage EXCEPT ![StageStream(stage)] = Found.val]
            /\ UNCHANGED endPage
       ELSE /\ endPage' = [endPage EXCEPT ![StageStream(stage)] = Found.val]
            /\ UNCHANGED startPage
    /\ NextStage
    /\ Taken
    /\ UNCHANGED <<exportVars, cfg, repoIdx, interrupted, signals, stopIdx, lo, hi, depth, loopVars,
                   store, pull_files, iterPages, missed, exc>>

\* the search calls itself and the new frame asks for its middle page
ProbeRecurse ==
    /\ pc = "probe"
    /\ fpc = "ret"
    /\ ProbeReadable
    /\ ~Found.ret
    /\ depth < MaxDepth
    /\ lo' = Found.start
    /\ hi' = Found.end
    /\ depth' = depth + 1
    /\ Call(<<"list", StageStream(stage), PyRoundHalf(Found.start + Found.end)>>)
    /\ UNCHANGED <<exportVars, cfg, pc, repoIdx, interrupted, signals, stopIdx, startPage, endPage, stage,
                   loopVars, store, pull_files, iterPages, missed, exc>>

\* the search calls itself once more than the interpreter allows
ProbeOverflow ==
    /\ pc = "probe"
    /\ fpc = "ret"
    /\ ProbeReadable
    /\ ~Found.ret
    /\ ~(depth < MaxDepth)
    /\ Raise("RecursionError")
    /\ Taken
    /\ UNCHANGED <<exportVars, cfg, repoIdx, interrupted, signals, stopIdx, startPage, endPage,
                   searchVars, loopVars, store, pull_files, iterPages, missed>>

\* ---------------------------------------------------------- the crawl loops
Repo == Repos[repoIdx]
\* linked_issue_numbers of crawl, for pull k of the repository at hand
LinkedIssueNumbers(k) == ExtractLinkedIssueNumbers(Body(k, Repo), Repo)
\* _save_json(pull, path): the file of the pull holds its linked_issue_numbers
SavePull(files, key, linked_issue_numbers) ==
    [x \in DOMAIN files \cup {key} |->
        IF x = key THEN linked_issue_numbers ELSE files[x]]
\* the stream position of the item the for loop stands at
Item == (page - 1) * PerPage + idx
\* a faulty test that forgets the end of the window
InWindowNoEnd(k) == ~(CreatedAt(k) < cfg.start_date)
InWindow(k) ==
    ~(CreatedAt(k) < cfg.start_date \/ CreatedAt(k) > cfg.end_date)
CapReachedAt(n) == cfg.max_issue_number > 0 /\ n >= cfg.max_issue_number
CapReached == CapReachedAt(num_issues)
\* a faulty condition that does not look at the stop flag
ContinueIgnoringFlag(flag, end_page) ==
    /\ ~CapReached
    /\ ~(end_page > 0 /\ page > end_page)
\* the condition of the two while loops
Continue(flag, end_page) ==
    /\ ~flag
    /\ ~CapReached
    /\ ~(end_page > 0 /\ page > end_page)
\* a faulty test that forgets the length of the page
LastPageSeenCapOnly(s) == CapReached
\* len(pulls) < self.per_page or the cap is reached
LastPageSeen(s) == PageLen(cfg.n[s], page) < PerPage \/ CapReached

\* a faulty for loop that the stop flag ends
ForDoneOrInterrupted(i, len) == i > len \/ interrupted
\* "for p in pulls" has run through the len items of the page
ForDone(i, len) == i > len

\* the lines between the boundaries and the pulls loop
PullsInit ==
    /\ pc = "init"
    /\ page' = startPage["pulls"]
    /\ num_issues' = 0
    /\ num_pulls' = 0
    /\ list_issues' = {}
    /\ interrupted' = FALSE
    /\ signals' = 0
    /\ stopIdx' = 0
    /\ pc' = "p_while"
    /\ UNCHANGED <<exportVars, cfg, repoIdx, startPage, endPage, searchVars, idx, lnk,
                   store, pull_files, iterPages, missed, fetchVars, exc>>

\* the lines between the pulls loop and the issues loop
IssuesInit ==
    /\ page' = startPage["issues"]
    /\ num_issues' = 0
    /\ pc' = "i_while"

PullsWhileEnter ==
    /\ pc = "p_while"
    /\ Continue(interrupted, endPage["pulls"])
    /\ Call(<<"list", "pulls", page>>)
    /\ iterPages' = Append(iterPages, <<"pulls", page>>)
    /\ pc' = "p_list"
    /\ UNCHANGED <<exportVars, cfg, repoIdx, interrupted, signals, stopIdx, startPage, endPage,
                   searchVars, loopVars, store, pull_files, missed, exc>>

PullsWhileExit ==
    /\ pc = "p_while"
    /\ ~Continue(interrupted, endPage["pulls"])
    /\ IssuesInit
    /\ UNCHANGED <<exportVars, cfg, repoIdx, interrupted, signals, stopIdx, startPage, endPage,
                   searchVars, idx, lnk, num_pulls, list_issues, store, pull_files,
                   iterPages, missed, fetchVars, exc>>

\* if not ok: continue
PullsListAbsent ==
    /\ pc = "p_list"
    /\ fpc = "ret"
    /\ ~fres.ok
    /\ Taken
    /\ missed' = missed \cup {url}
    /\ pc' = "p_while"
    /\ UNCHANGED <<exportVars, cfg, repoIdx, interrupted, signals, stopIdx, startPage, endPage,
                   searchVars, loopVars, store, pull_files, iterPages, exc>>

\* the page came: for p in pulls
PullsListFetched ==
    /\ pc = "p_list"
    /\ fpc = "ret"
    /\ fres.ok
    /\ Taken
    /\ idx' = 1
    /\ pc' = "p_item"
    /\ UNCHANGED <<exportVars, cfg, repoIdx, interrupted, signals, stopIdx, startPage, endPage,
                   searchVars, page, lnk, num_issues, num_pulls, list_issues,
                   store, pull_files, iterPages, missed, exc>>

\* the for loop has no item left
PullsForEnd ==
    /\ pc = "p_item"
    /\ ForDone(idx, PageLen(cfg.n["pulls"], page))
    /\ pc' = "p_after"
    /\ UNCHANGED <<exportVars, cfg, repoIdx, interrupted, signals, stopIdx, startPage, endPage,
                   searchVars, loopVars, store, pull_files, iterPages, missed, fetchVars, exc>>

\* created_at outside the window: continue
PullsItemSkip ==
    /\ pc = "p_item"
    /\ ~ForDone(idx, PageLen(cfg.n["pulls"], page))
    /\ ~InWindow(Item)
    /\ idx' = idx + 1
    /\ UNCHANGED <<exportVars, cfg, pc, repoIdx, interrupted, signals, stopIdx, startPage, endPage,
                   searchVars, page, lnk, num_issues, num_pulls, list_issues,
                   store, pull_files, iterPages, missed, fetchVars, exc>>

\* the pull is in the window: its detail object is asked for
PullsItemFetch ==
    /\ pc = "p_item"
    /\ ~ForDone(idx, PageLen(cfg.n["pulls"], page))
    /\ InWindow(Item)
    /\ Call(<<"pull", "pulls", Item>>)
    /\ pc' = "p_detail"
    /\ UNCHANGED <<exportVars, cfg, repoIdx, interrupted, signals, stopIdx, startPage, endPage,
                   searchVars, loopVars, store, pull_files, iterPages, missed, exc>>

PullDetailAbsent ==
    /\ pc = "p_detail"
    /\ fpc = "ret"
    /\ ~fres.ok
    /\ Taken
    /\ missed' = missed \cup {url}
    /\ idx' = idx + 1
    /\ pc' = "p_item"
    /\ UNCHANGED <<exportVars, cfg, repoIdx, interrupted, signals, stopIdx, startPage, endPage,
                   searchVars, page, lnk, num_issues, num_pulls, list_issues,
                   store, pull_files, iterPages, exc>>

\* the detail object came: its diff is asked for
PullDetailFetched ==
    /\ pc = "p_detail"
    /\ fpc = "ret"
    /\ fres.ok
    /\ Call(<<"diff", "pulls", Item>>)
    /\ pc' = "p_diff"
    /\ UNCHANGED <<exportVars, cfg, repoIdx, interrupted, signals, stopIdx, startPage, endPage,
                   searchVars, loopVars, store, pull_files, iterPages, missed, exc>>

\* a faulty crawl that saves the pull although its diff is absent
PullDiffAbsentSavesPull ==
    /\ pc = "p_diff"
    /\ fpc = "ret"
    /\ ~fres.ok
    /\ Taken
    /\ missed' = missed \cup {url}
    /\ store' = store \cup {<<Repo, "pull", Item>>}
    /\ pull_files' = SavePull(pull_files, <<Repo, Item>>, LinkedIssueNumbers(Item))
    /\ idx' = idx + 1
    /\ pc' = "p_item"
    /\ UNCHANGED <<exportVars, cfg, repoIdx, interrupted, signals, stopIdx, startPage, endPage,
                   searchVars, page, lnk, num_issues, num_pulls, list_issues,
                   iterPages, exc>>

PullDiffAbsent ==
    /\ pc = "p_diff"
    /\ fpc = "ret"
    /\ ~fres.ok
    /\ Taken
    /\ missed' = missed \cup {url}
    /\ idx' = idx + 1
    /\ pc' = "p_item"
    /\ UNCHANGED <<exportVars, cfg, repoIdx, interrupted, signals, stopIdx, startPage, endPage,
                   searchVars, page, lnk, num_issues, num_pulls, list_issues,
                   store, pull_files, iterPages, exc>>

\* the diff came: the diff and the pull are saved
PullDiffFetched ==
    /\ pc = "p_diff"
    /\ fpc = "ret"
    /\ fres.ok
    /\ Taken
    /\ store' = store \cup {<<Repo, "diff", Item>>, <<Repo, "pull", Item>>}
    /\ pull_files' = SavePull(pull_files, <<Repo, Item>>, LinkedIssueNumbers(Item))
    /\ lnk' = 1
    /\ pc' = "p_linked"
    /\ UNCHANGED <<exportVars, cfg, repoIdx, interrupted, signals, stopIdx, startPage, endPage,
                   searchVars, page, idx, num_issues, num_pulls, list_issues,
                   iterPages, missed, exc>>

\* for issue_number in linked_issue_numbers: the next one is asked for
PullsLinkedFetch ==
    /\ pc = "p_linked"
    /\ lnk <= Len(LinkedIssueNumbers(Item))
    /\ Call(<<"issue", "issues", LinkedIssueNumbers(Item)[lnk]>>)
    /\ pc' = "p_issue"
    /\ UNCHANGED <<exportVars, cfg, repoIdx, interrupted, signals, stopIdx, startPage, endPage,
                   searchVars, loopVars, store, pull_files, iterPages, missed, exc>>

\* no linked issue left: num_pulls += 1, and break if the cap is reached
PullsLinkedEnd ==
    /\ pc = "p_linked"
    /\ lnk > Len(LinkedIssueNumbers(Item))
    /\ num_pulls' = num_pulls + 1
    /\ IF CapReached
       THEN pc' = "p_after" /\ idx' = idx
       ELSE pc' = "p_item" /\ idx' = idx + 1
    /\ UNCHANGED <<exportVars, cfg, repoIdx, interrupted, signals, stopIdx, startPage, endPage,
                   searchVars, page, lnk, num_issues, list_issues, store, pull_files,
                   iterPages, missed, fetchVars, exc>>

PullIssueAbsent ==
    /\ pc = "p_issue"
    /\ fpc = "ret"
    /\ ~fres.ok
    /\ Taken
    /\ missed' = missed \cup {<<"linked", url[2], url[3]>>}
    /\ lnk' = lnk + 1
    /\ pc' = "p_linked"
    /\ UNCHANGED <<exportVars, cfg, repoIdx, interrupted, signals, stopIdx, startPage, endPage,
                   searchVars, page, idx, num_issues, num_pulls, list_issues,
                   store, pull_files, iterPages, exc>>

\* a faulty crawl that saves a linked issue and forgets to remember it
PullIssueFetchedNoMemo ==
    /\ pc = "p_issue"
    /\ fpc = "ret"
    /\ fres.ok
    /\ Taken
    /\ store' = store \cup {<<Repo, "issue", LinkedIssueNumbers(Item)[lnk]>>}
    /\ UNCHANGED pull_files
    /\ num_issues' = num_issues + 1
    /\ lnk' = lnk + 1
    /\ pc' = "p_linked"
    /\ UNCHANGED <<exportVars, cfg, repoIdx, interrupted, signals, stopIdx, startPage, endPage,
                   searchVars, page, idx, num_pulls, list_issues, iterPages, missed, exc>>

\* the linked issue came: it is saved, counted and remembered
PullIssueFetched ==
    /\ pc = "p_issue"
    /\ fpc = "ret"
    /\ fres.ok
    /\ Taken
    /\ store' = store \cup {<<Repo, "issue", LinkedIssueNumbers(Item)[lnk]>>}
    /\ UNCHANGED pull_files
    /\ num_issues' = num_issues + 1
    /\ list_issues' = list_issues \cup {LinkedIssueNumbers(Item)[lnk]}
    /\ lnk' = lnk + 1
    /\ pc' = "p_linked"
    /\ UNCHANGED <<exportVars, cfg, repoIdx, interrupted, signals, stopIdx, startPage, endPage,
                   searchVars, page, idx, num_pulls, iterPages, missed, exc>>

\* after the for loop, on the last page: return if interrupted
PullsLastReturn ==
    /\ pc = "p_after"
    /\ LastPageSeen("pulls")
    /\ interrupted
    /\ pc' = "returned"
    /\ UNCHANGED <<exportVars, cfg, repoIdx, interrupted, signals, stopIdx, startPage, endPage,
                   searchVars, loopVars, store, pull_files, iterPages, missed, fetchVars, exc>>

\* after the for loop, on the last page: break
PullsLastBreak ==
    /\ pc = "p_after"
    /\ LastPageSeen("pulls")
    /\ ~interrupted
    /\ IssuesInit
    /\ UNCHANGED <<exportVars, cfg, repoIdx, interrupted, signals, stopIdx, startPage, endPage,
                   searchVars, idx, lnk, num_pulls, list_issues, store, pull_files,
                   iterPages, missed, fetchVars, exc>>

\* after the for loop: page += 1
PullsNextPage ==
    /\ pc = "p_after"
    /\ ~LastPageSeen("pulls")
    /\ page' = page + 1
    /\ pc' = "p_while"
    /\ UNCHANGED <<exportVars, cfg, repoIdx, interrupted, signals, stopIdx, startPage, endPage,
                   searchVars, idx, lnk, num_issues, num_pulls, list_issues,
                   store, pull_files, iterPages, missed, fetchVars, exc>>

IssuesWhileEnter ==
    /\ pc = "i_while"
    /\ Continue(interrupted, endPage["issues"])
    /\ Call(<<"list", "issues", page>>)
    /\ iterPages' = Append(iterPages, <<"issues", page>>)
    /\ pc' = "i_list"
    /\ UNCHANGED <<exportVars, cfg, repoIdx, interrupted, signals, stopIdx, startPage, endPage,
                   searchVars, loopVars, store, pull_files, missed, exc>>

\* the issues loop ends on its condition: crawl returns
IssuesWhileExit ==
    /\ pc = "i_while"
    /\ ~Continue(interrupted, endPage["issues"])
    /\ pc' = "returned"
    /\ UNCHANGED <<exportVars, cfg, repoIdx, interrupted, signals, stopIdx, startPage, endPage,
                   searchVars, loopVars, store, pull_files, iterPages, missed, fetchVars, exc>>

IssuesListAbsent ==
    /\ pc = "i_list"
    /\ fpc = "ret"
    /\ ~fres.ok
    /\ Taken
    /\ missed' = missed \cup {url}
    /\ pc' = "i_while"
    /\ UNCHANGED <<exportVars, cfg, repoIdx, interrupted, signals, stopIdx, startPage, endPage,
                   searchVars, loopVars, store, pull_files, iterPages, exc>>

IssuesListFetched ==
    /\ pc = "i_list"
    /\ fpc = "ret"
    /\ fres.ok
    /\ Taken
    /\ idx' = 1
    /\ pc' = "i_item"
    /\ UNCHANGED <<exportVars, cfg, repoIdx, interrupted, signals, stopIdx, startPage, endPage,
                   searchVars, page, lnk, num_issues, num_pulls, list_issues,
                   store, pull_files, iterPages, missed, exc>>

IssuesForEnd ==
    /\ pc = "i_item"
    /\ ForDone(idx, PageLen(cfg.n["issues"], page))
    /\ pc' = "i_after"
    /\ UNCHANGED <<exportVars, cfg, repoIdx, interrupted, signals, stopIdx, startPage, endPage,
                   searchVars, loopVars, store, pull_files, iterPages, missed, fetchVars, exc>>

\* saved with a pull already, or created outside the window: continue
IssuesItemSkip ==
    /\ pc = "i_item"
    /\ ~ForDone(idx, PageLen(cfg.n["issues"], page))
    /\ Item \in list_issues \/ ~InWindow(Item)
    /\ idx' = idx + 1
    /\ UNCHANGED <<exportVars, cfg, pc, repoIdx, interrupted, signals, stopIdx, startPage, endPage,
                   searchVars, page, lnk, num_issues, num_pulls, list_issues,
                   store, pull_files, iterPages, missed, fetchVars, exc>>

IssuesItemFetch ==
    /\ pc = "i_item"
    /\ ~ForDone(idx, PageLen(cfg.n["issues"], page))
    /\ ~(Item \in list_issues \/ ~InWindow(Item))
    /\ Call(<<"issue", "issues", Item>>)
    /\ pc' = "i_detail"
    /\ UNCHANGED <<exportVars, cfg, repoIdx, interrupted, signals, stopIdx, startPage, endPage,
                   searchVars, loopVars, store, pull_files, iterPages, missed, exc>>

IssueDetailAbsent ==
    /\ pc = "i_detail"
    /\ fpc = "ret"
    /\ ~fres.ok
    /\ Taken
    /\ missed' = missed \cup {url}
    /\ idx' = idx + 1
    /\ pc' = "i_item"
    /\ UNCHANGED <<exportVars, cfg, repoIdx, interrupted, signals, stopIdx, startPage, endPage,
                   searchVars, page, lnk, num_issues, num_pulls, list_issues,
                   store, pull_files, iterPages, exc>>

\* the issue came: it is saved and counted, and the for loop breaks at the cap
IssueDetailFetched ==
    /\ pc = "i_detail"
    /\ fpc = "ret"
    /\ fres.ok
    /\ Taken
    /\ store' = store \cup {<<Repo, "issue", Item>>}
    /\ UNCHANGED pull_files
    /\ num_issues' = num_issues + 1
    /\ IF CapReachedAt(num_issues + 1)
       THEN pc' = "i_after" /\ idx' = idx
       ELSE pc' = "i_item" /\ idx' = idx + 1
    /\ UNCHANGED <<exportVars, cfg, repoIdx, interrupted, signals, stopIdx, startPage, endPage,
                   searchVars, page, lnk, num_pulls, list_issues, iterPages, missed, exc>>

\* after the for loop, on the last page: return or break, crawl is over
IssuesLast ==
    /\ pc = "i_after"
    /\ LastPageSeen("issues")
    /\ pc' = "returned"
    /\ UNCHANGED <<exportVars, cfg, repoIdx, interrupted, signals, stopIdx, startPage, endPage,
                   searchVars, loopVars, store, pull_files, iterPages, missed, fetchVars, exc>>

IssuesNextPage ==
    /\ pc = "i_after"
    /\ ~LastPageSeen("issues")
    /\ page' = page + 1
    /\ pc' = "i_while"
    /\ UNCHANGED <<exportVars, cfg, repoIdx, interrupted, signals, stopIdx, startPage, endPage,
                   searchVars, idx, lnk, num_issues, num_pulls, list_issues,
                   store, pull_files, iterPages, missed, fetchVars, exc>>

\* ------------------------------------------------------------ specification
Fetcher == GetReturns \/ GetRateLimited \/ GetFailed \/ GetCrashed
Main == MainCrawl \/ MainDone \/ MainExcept \/ MainReturned
Boundaries ==
    \/ BoundaryGiven \/ BoundaryStart \/ BoundaryEndOpen \/ BoundaryEnd
    \/ HintMissing \/ HintFound
    \/ ProbeFailed \/ ProbeReturn \/ ProbeRecurse \/ ProbeOverflow
PullsLoop ==
    \/ PullsInit \/ PullsWhileEnter \/ PullsWhileExit
    \/ PullsListAbsent \/ PullsListFetched
    \/ PullsForEnd \/ PullsItemSkip \/ PullsItemFetch
    \/ PullDetailAbsent \/ PullDetailFetched \/ PullDiffAbsent \/ PullDiffFetched
    \/ PullsLinkedFetch \/ PullsLinkedEnd \/ PullIssueAbsent \/ PullIssueFetched
    \/ PullsLastReturn \/ PullsLastBreak \/ PullsNextPage
IssuesLoop ==
    \/ IssuesWhileEnter \/ IssuesWhileExit
    \/ IssuesListAbsent \/ IssuesListFetched
    \/ IssuesForEnd \/ IssuesItemSkip \/ IssuesItemFetch
    \/ IssueDetailAbsent \/ IssueDetailFetched
    \/ IssuesLast \/ IssuesNextPage

Next == Sigint \/ Main \/ Fetcher \/ Boundaries \/ PullsLoop \/ IssuesLoop

Spec == Init /\ [][Next]_vars
\* the same program, invoked with two repositories
SpecRepos == InitRepos /\ [][Next]_vars

\* ================================================================ writer.py
\* --------------------------------------------------- _get_section_changes
\* lines of a diff at most
MaxLines == 4
\* _sections: the tracked prefixes, and the catch-all in the last place
Sections ==
    <<"build/", "cli/", "extensions/", "remote/", "resources/", "scripts/",
      "src/", "test/", "other ">>
\* {a: 0 for a in _section_attributes}
NoChanges == [changed_files |-> 0, additions |-> 0, deletions |-> 0]

\* A line is a sequence of pieces of text; a path is one too.
SrcA == <<"src/", "a">>
TestB == <<"test/", "b">>
DocsC == <<"docs/", "c">>
\* "diff --git a/X b/Y"
FileLine(x, y) == <<"diff --git a/">> \o x \o <<" b/">> \o y \o <<"\n">>
HunkLine == <<"@@", " -1 +1 ", "@@", "\n">>
\* "--- a/src/a": the line that names the old file after "diff --git", and in
\* a hunk the removed line "-- a/src/a"
MinusLine == <<"---", " ", "a/">> \o SrcA \o <<"\n">>
\* "+++ b/src/a": the line that names the new file, and in a hunk the added
\* line "++ b/src/a"
PlusLine == <<"+++", " ", "b/">> \o SrcA \o <<"\n">>
AddedLine == <<"+", "x", "\n">>
RemovedLine == <<"-", "y", "\n">>
Lines ==
    { FileLine(SrcA, SrcA), FileLine(SrcA, TestB), FileLine(DocsC, DocsC),
      HunkLine, MinusLine, PlusLine, AddedLine, RemovedLine }
\* the diffs: every sequence of MaxLines lines at most
Diffs == UNION { [1 .. n -> Lines] : n \in 0 .. MaxLines }

\* the pieces with a blank in them, and those that end with a slash
HasSpace(t) == t \in {" ", " b/", " -1 +1 ", "diff --git a/", "other "}
EndsWithSlash(t) ==
    t \in {"a/", "b/", " b/", "src/", "test/", "docs/", "diff --git a/",
           "build/", "cli/", "extensions/", "remote/", "resources/", "scripts/"}
\* _diff_file_pattern.match(line): ^diff --git a\/(?:.*?) b\/(.*?)\n$
FileMatch(line) ==
    /\ Len(line) >= 3
    /\ line[1] = "diff --git a/"
    /\ line[Len(line)] = "\n"
    /\ \E i \in 2 .. Len(line) - 1 : line[i] = " b/"
    /\ \A i \in 1 .. Len(line) - 1 : line[i] # "\n"
\* file_match.group(1): what follows the first " b/" (the first group is lazy)
FileGroup(line) ==
    SubSeq(line, Min({ i \in 2 .. Len(line) - 1 : line[i] = " b/" }) + 1,
           Len(line) - 1)
\* _diff_file_anchor_pattern.match(line): (?:---|\+\+\+) \S*?\/(.*?)$
AnchorMatch(line) ==
    /\ Len(line) >= 3
    /\ line[1] \in {"---", "+++"}
    /\ line[2] = " "
    /\ \E j \in 3 .. Len(line) :
          /\ EndsWithSlash(line[j])
          /\ \A k \in 3 .. j : ~HasSpace(line[k]) /\ line[k] # "\n"
\* line.startswith('+'), line.startswith('-')
StartsWithPlus(line) == line # <<>> /\ line[1] \in {"+", "+++"}
StartsWithMinus(line) == line # <<>> /\ line[1] \in {"-", "---"}
\* filename.startswith(s)
StartsWith(filename, sec) == filename # <<>> /\ filename[1] = sec
\* next((i for (i, s) in enumerate(_sections) if filename.startswith(s)),
\*      len(_sections) - 1), 1-based
SectionIndex(filename) ==
    IF \E i \in 1 .. Len(Sections) : StartsWith(filename, Sections[i])
    THEN Min({ i \in 1 .. Len(Sections) : StartsWith(filename, Sections[i]) })
    ELSE Len(Sections)

\* the locals of _get_section_changes before its for loop
NoTally ==
    [ section_data |-> [i \in 1 .. Len(Sections) |-> NoChanges],
      current_section |-> Len(Sections),
      current_filename |-> <<>> ]
\* the body of "for line in diff", on the locals t
SectionStep(t, line) ==
    IF FileMatch(line)
    THEN IF FileGroup(line) # t.current_filename
         THEN LET sec == SectionIndex(FileGroup(line)) IN
              [ section_data |->
                    [t.section_data EXCEPT ![sec].changed_files = @ + 1],
                current_section |-> sec,
                current_filename |-> FileGroup(line) ]
         ELSE t
    ELSE IF StartsWithPlus(line) /\ ~AnchorMatch(line)
    THEN [t EXCEPT !.section_data[t.current_section].additions = @ + 1]
    ELSE IF StartsWithMinus(line) /\ ~AnchorMatch(line)
    THEN [t EXCEPT !.section_data[t.current_section].deletions = @ + 1]
    ELSE t

Tally ==
    [ section_data |-> section_data,
      current_section |-> current_section,
      current_filename |-> current_filename ]
\* the for loop takes the next line of diff
TakeLine ==
    /\ line_no < Len(diff)
    /\ line_no' = line_no + 1
    /\ section_data' = SectionStep(Tally, diff[line_no + 1]).section_data
    /\ current_section' = SectionStep(Tally, diff[line_no + 1]).current_section
    /\ current_filename' = SectionStep(Tally, diff[line_no + 1]).current_filename
    /\ UNCHANGED <<crawlVars, writerVars, diff>>

\* the line is a "diff --git" line
SectionsFile == line_no < Len(diff) /\ FileMatch(diff[line_no + 1]) /\ TakeLine
\* the line is counted as an addition
SectionsAddition ==
    /\ line_no < Len(diff)
    /\ ~FileMatch(diff[line_no + 1])
    /\ StartsWithPlus(diff[line_no + 1]) /\ ~AnchorMatch(diff[line_no + 1])
    /\ TakeLine
\* the line is counted as a deletion
SectionsDeletion ==
    /\ line_no < Len(diff)
    /\ ~FileMatch(diff[line_no + 1])
    /\ StartsWithMinus(diff[line_no + 1]) /\ ~AnchorMatch(diff[line_no + 1])
    /\ TakeLine
\* the line is none of these: nothing is counted
SectionsPass ==
    /\ line_no < Len(diff)
    /\ ~FileMatch(diff[line_no + 1])
    /\ ~(StartsWithPlus(diff[line_no + 1]) /\ ~AnchorMatch(diff[line_no + 1]))
    /\ ~(StartsWithMinus(diff[line_no + 1]) /\ ~AnchorMatch(diff[line_no + 1]))
    /\ TakeLine

\* an invocation that crawls nothing, for the runs of writer.py
NoCrawl == Config([pulls |-> 0, issues |-> 0], <<0, Now + 1>>, 1, -1, -1, TRUE)
\* _get_section_changes(pull, diff) is entered with a diff of Diffs
InitSections ==
    /\ CrawlerAt({NoCrawl}, "finished")
    /\ diff \in Diffs
    /\ line_no = 0
    /\ section_data = NoTally.section_data
    /\ current_section = NoTally.current_section
    /\ current_filename = NoTally.current_filename
    /\ NoWriter

NextSections == SectionsFile \/ SectionsAddition \/ SectionsDeletion \/ SectionsPass
SpecSections == InitSections /\ [][NextSections]_vars

\* ------------------------------------------------------------ write_dataset
\* the greatest limit_rows of the runs
MaxLimit == 6
\* _get_section_changes(pull, diff), all of it
RECURSIVE GetSectionChanges(_)
GetSectionChanges(d) ==
    IF d = <<>> THEN NoTally
    ELSE SectionStep(GetSectionChanges(SubSeq(d, 1, Len(d) - 1)), d[Len(d)])

\* list.sort() of a list of numbers
RECURSIVE Sorted(_)
Sorted(q) ==
    IF q = <<>> THEN <<>>
    ELSE LET m == Min({ q[i] : i \in 1 .. Len(q) })
             at == Min({ i \in 1 .. Len(q) : q[i] = m })
         IN <<m>> \o Sorted(SubSeq(q, 1, at - 1) \o SubSeq(q, at + 1, Len(q)))
\* the numbers of the files of a kind in a repository directory, sorted
RECURSIVE SortedNumbers(_)
SortedNumbers(S) ==
    IF S = {} THEN <<>> ELSE <<Min(S)>> \o SortedNumbers(S \ {Min(S)})

\* what a crawl left in a repository directory: pull-N.json with pull-N.diff,
\* and issue-N.json
PullFile(c, l, d) == [created_at |-> c, linked_issue_numbers |-> l, diff |-> d]
IssueFile(c) == [created_at |-> c]
RepoOne ==
    [ name |-> "o/r1",
      pulls |-> [n \in {1, 4} |->
                    IF n = 1
                    THEN PullFile(2, <<3, 2>>,
                                  <<FileLine(SrcA, SrcA), HunkLine, AddedLine>>)
                    ELSE PullFile(8, <<2, 2>>,
                                  <<FileLine(DocsC, DocsC), HunkLine, RemovedLine>>)],
      issues |-> [n \in {2, 3, 5} |-> IssueFile(2 * n)] ]
RepoTwo ==
    [ name |-> "o/r2",
      pulls |-> [n \in {1} |-> PullFile(2, <<>>, <<>>)],
      issues |-> [n \in {2} |-> IssueFile(4)] ]
\* a pull whose linked issue was absent when it was crawled
RepoTorn ==
    [ name |-> "o/r3",
      pulls |-> [n \in {1} |-> PullFile(2, <<9>>, <<>>)],
      issues |-> [n \in {} |-> IssueFile(0)] ]
\* _sorted_owner_repo_pairs(src_dir) of the source directories
Dirs == { <<>>, <<RepoOne>>, <<RepoOne, RepoTwo>>, <<RepoTorn>> }
\* the runs of write_dataset
WriterRuns ==
    { [src_dir |-> d, limit_rows |-> l, start_date |-> w[1], end_date |-> w[2]] :
        d \in Dirs, l \in -1 .. MaxLimit, w \in {<<0, 12>>, <<3, 9>>, <<0, 5>>} }

WRepo == wargs.src_dir[wi]
WPulls == SortedNumbers(DOMAIN WRepo.pulls)
WIssues == SortedNumbers(DOMAIN WRepo.issues)
\* created_at < start_date or created_at > end_date
OutOfDates(c) == c < wargs.start_date \/ c > wargs.end_date
\* a faulty test that stops one row late
LimitReachedLate(total, limit) == total = limit + 1
\* total_num_rows == limit_rows
LimitReached(total, limit) == total = limit

\* for i, (owner, repo) in enumerate(owner_repo_pairs): the next repository
WriterRepoEnter ==
    /\ wpc = "w_repo"
    /\ wi <= Len(wargs.src_dir)
    /\ issue_list' = {}
    /\ wj' = 1
    /\ wpc' = "w_pull"
    /\ UNCHANGED <<crawlVars, sectionVars, wargs, wi, wl, wk, pull, rows, total_num_rows>>

\* no repository left: print('Finished')
WriterFinished ==
    /\ wpc = "w_repo"
    /\ wi > Len(wargs.src_dir)
    /\ wpc' = "w_finished"
    /\ UNCHANGED <<crawlVars, sectionVars, wargs, wi, wj, wl, wk, pull, issue_list, rows,
                   total_num_rows>>

\* the pull is outside the dates: continue
WriterPullSkip ==
    /\ wpc = "w_pull"
    /\ wj <= Len(WPulls)
    /\ OutOfDates(WRepo.pulls[WPulls[wj]].created_at)
    /\ wj' = wj + 1
    /\ UNCHANGED <<crawlVars, sectionVars, wargs, wpc, wi, wl, wk, pull, issue_list, rows,
                   total_num_rows>>

\* the pull is read, its linked_issue_numbers are sorted, its diff is read
\* and attributed
WriterPullRead ==
    /\ wpc = "w_pull"
    /\ wj <= Len(WPulls)
    /\ ~OutOfDates(WRepo.pulls[WPulls[wj]].created_at)
    /\ pull' = [ number |-> WPulls[wj],
                 linked_issue_numbers |->
                     Sorted(WRepo.pulls[WPulls[wj]].linked_issue_numbers),
                 section_data |->
                     GetSectionChanges(WRepo.pulls[WPulls[wj]].diff).section_data ]
    /\ wl' = 1
    /\ wpc' = "w_link"
    /\ UNCHANGED <<crawlVars, sectionVars, wargs, wi, wj, wk, issue_list, rows,
                   total_num_rows>>

\* the pulls are through: the loop over the issue numbers begins
WriterPullsEnd ==
    /\ wpc = "w_pull"
    /\ wj > Len(WPulls)
    /\ wk' = 1
    /\ wpc' = "w_issue"
    /\ UNCHANGED <<crawlVars, sectionVars, wargs, wi, wj, wl, pull, issue_list, rows,
                   total_num_rows>>

\* the linked issues of the pull are through: the next pull
WriterLinksEnd ==
    /\ wpc = "w_link"
    /\ wl > Len(pull.linked_issue_numbers)
    /\ wj' = wj + 1
    /\ wpc' = "w_pull"
    /\ UNCHANGED <<crawlVars, sectionVars, wargs, wi, wl, wk, pull, issue_list, rows,
                   total_num_rows>>

\* _read_json of an issue file that is not there: FileNotFoundError
WriterLinkMissing ==
    /\ wpc = "w_link"
    /\ wl <= Len(pull.linked_issue_numbers)
    /\ pull.linked_issue_numbers[wl] \notin DOMAIN WRepo.issues
    /\ wpc' = "w_error"
    /\ UNCHANGED <<crawlVars, sectionVars, wargs, wi, wj, wl, wk, pull, issue_list, rows,
                   total_num_rows>>

\* the linked issue is outside the dates: continue
WriterLinkSkip ==
    /\ wpc = "w_link"
    /\ wl <= Len(pull.linked_issue_numbers)
    /\ pull.linked_issue_numbers[wl] \in DOMAIN WRepo.issues
    /\ OutOfDates(WRepo.issues[pull.linked_issue_numbers[wl]].created_at)
    /\ wl' = wl + 1
    /\ UNCHANGED <<crawlVars, sectionVars, wargs, wpc, wi, wj, wk, pull, issue_list, rows,
                   total_num_rows>>

\* a row for the linked issue and its pull; return if the limit is reached
WriterLinkRow ==
    /\ wpc = "w_link"
    /\ wl <= Len(pull.linked_issue_numbers)
    /\ pull.linked_issue_numbers[wl] \in DOMAIN WRepo.issues
    /\ ~OutOfDates(WRepo.issues[pull.linked_issue_numbers[wl]].created_at)
    /\ issue_list' = issue_list \cup {pull.linked_issue_numbers[wl]}
    /\ rows' = Append(rows, <<WRepo.name, pull.linked_issue_numbers[wl], pull.number>>)
    /\ total_num_rows' = total_num_rows + 1
    /\ IF LimitReached(total_num_rows + 1, wargs.limit_rows)
       THEN wpc' = "w_limit" /\ wl' = wl
       ELSE wpc' = wpc /\ wl' = wl + 1
    /\ UNCHANGED <<crawlVars, sectionVars, wargs, wi, wj, wk, pull>>

\* the issue has a row already, or is outside the dates: continue
WriterIssueSkip ==
    /\ wpc = "w_issue"
    /\ wk <= Len(WIssues)
    /\ \/ WIssues[wk] \in issue_list
       \/ OutOfDates(WRepo.issues[WIssues[wk]].created_at)
    /\ wk' = wk + 1
    /\ UNCHANGED <<crawlVars, sectionVars, wargs, wpc, wi, wj, wl, pull, issue_list, rows,
                   total_num_rows>>

\* a row for the issue alone; return if the limit is reached
WriterIssueRow ==
    /\ wpc = "w_issue"
    /\ wk <= Len(WIssues)
    /\ WIssues[wk] \notin issue_list
    /\ ~OutOfDates(WRepo.issues[WIssues[wk]].created_at)
    /\ rows' = Append(rows, <<WRepo.name, WIssues[wk], 0>>)
    /\ total_num_rows' = total_num_rows + 1
    /\ IF LimitReached(total_num_rows + 1, wargs.limit_rows)
       THEN wpc' = "w_limit" /\ wk' = wk
       ELSE wpc' = wpc /\ wk' = wk + 1
    /\ UNCHANGED <<crawlVars, sectionVars, wargs, wi, wj, wl, pull, issue_list>>

\* the issues are through: the next repository
WriterIssuesEnd ==
    /\ wpc = "w_issue"
    /\ wk > Len(WIssues)
    /\ wi' = wi + 1
    /\ wpc' = "w_repo"
    /\ UNCHANGED <<crawlVars, sectionVars, wargs, wj, wl, wk, pull, issue_list, rows,
                   total_num_rows>>

\* write_dataset has written the header row and listed the repositories
InitWriter ==
    /\ CrawlerAt({NoCrawl}, "finished")
    /\ NoSections
    /\ wargs \in WriterRuns
    /\ wpc = "w_repo"
    /\ wi = 1 /\ wj = 0 /\ wl = 0 /\ wk = 0
    /\ pull = NoPull
    /\ issue_list = {}
    /\ rows = <<>>
    /\ total_num_rows = 0

NextWriter ==
    \/ WriterRepoEnter \/ WriterFinished
    \/ WriterPullSkip \/ WriterPullRead \/ WriterPullsEnd
    \/ WriterLinksEnd \/ WriterLinkMissing \/ WriterLinkSkip \/ WriterLinkRow
    \/ WriterIssueSkip \/ WriterIssueRow \/ WriterIssuesEnd
SpecWriter == InitWriter /\ [][NextWriter]_vars

\* ------------------------------------------------------ boundary searches
StartStage(s) == IF s = "pulls" THEN 1 ELSE 2
EndStage(s) == IF s = "pulls" THEN 3 ELSE 4
\* the pages of stream s with an item created at or after start_date
StartPages(s) ==
    { p \in 1 .. LastPage(cfg.n[s]) :
        \E k \in PageItems(cfg.n[s], p) : CreatedAt(k) >= cfg.start_date }
\* the pages of stream s with an item created at or before end_date
EndPages(s) ==
    { p \in 1 .. LastPage(cfg.n[s]) :
        \E k \in PageItems(cfg.n[s], p) : CreatedAt(k) <= cfg.end_date }
\* the start-page search of stream s ran and returned
StartReturned(s) == cfg.start_page[s] < 1 /\ stage > StartStage(s)
\* the end-page search of stream s ran and returned
EndReturned(s) ==
    cfg.end_page[s] < 1 /\ ~(cfg.end_date > Now) /\ stage > EndStage(s)
\* the search of the boundary crawl stands at nested deeper than the
\* interpreter allows
Overflowed(k) == pc = "except" /\ exc = "RecursionError" /\ stage = k

\* C1: for every window and every stream with a page that holds an item
\* created at or after the window's start, the start-page search returns,
\* and returns the smallest such page.
C1_StartPageIsSmallest ==
    \A s \in Streams :
        StartPages(s) # {} =>
            /\ ~Overflowed(StartStage(s))
            /\ StartReturned(s) => startPage[s] = Min(StartPages(s))

\* C2: for every window and every stream with a page that holds an item
\* created at or before the window's end, the end-page search returns, and
\* returns the largest such page.
C2_EndPageIsLargest ==
    \A s \in Streams :
        EndPages(s) # {} =>
            /\ ~Overflowed(EndStage(s))
            /\ EndReturned(s) => endPage[s] = Max(EndPages(s))

\* a start-page search that returns, returns the smallest page
StartPageRightWhenReturned ==
    \A s \in Streams :
        StartPages(s) # {} /\ StartReturned(s) => startPage[s] = Min(StartPages(s))
\* an end-page search that returns, returns the largest page
EndPageRightWhenReturned ==
    \A s \in Streams :
        EndPages(s) # {} /\ EndReturned(s) => endPage[s] = Max(EndPages(s))

\* ------------------------------------------------------------- the fetcher
\* the running _get has received responses, the last of them of a kind in ks
LastResponseIn(ks) == respLog # <<>> /\ Last(respLog).kind \in ks
\* every response before the last was a failed request (not ok, no 404, no
\* rate limit)
FailuresBeforeLast ==
    \A i \in 1 .. (Len(respLog) - 1) : respLog[i].kind = "error"
\* every response was a failed request
OnlyFailures == \A i \in 1 .. Len(respLog) : respLog[i].kind = "error"

\* C3: a fetch whose first k < max_tries attempts are failed requests (not
\* ok, no 404, not rate-limited) and whose next attempt succeeds returns the
\* response after k + 1 attempts, with k tries counted and k sleeps of
\* request_retry_wait_secs.
C3_RetriesThenReturns ==
    (LastResponseIn({"ok"}) /\ FailuresBeforeLast
        /\ Len(respLog) - 1 < cfg.max_tries)
    => /\ fpc = "ret"
       /\ fres = [r |-> "response", ok |-> TRUE]
       /\ attempts = Len(respLog)
       /\ tries = Len(respLog) - 1
       /\ sleepLog = [i \in 1 .. (Len(respLog) - 1) |-> <<"retry", RetryWait>>]
       /\ lastReq = url

\* a fetch returned its response at the second attempt, after one failure
C3_Witness ==
    /\ fpc = "ret"
    /\ fres.ok
    /\ Len(respLog) = 2
    /\ respLog[1].kind = "error"
    /\ tries = 1
    /\ Len(sleepLog) = 1

\* C4: a rate-limited response never changes the retry counter: tries counts
\* the failed requests only, the fetcher sleeps for the wait the response
\* asks for and then stands before the next request of the same URL, and
\* nothing is raised.
C4_RateLimitedWaitsAndRetries ==
    /\ tries = CountKind(respLog, {"error"})
    /\ \A i \in 1 .. Len(respLog) :
          (respLog[i].kind = "ratelimited" /\ RatelimitWait(respLog[i].delta) >= 0)
          => /\ i <= Len(sleepLog)
             /\ sleepLog[i] = <<"ratelimit", RatelimitWait(respLog[i].delta)>>
    /\ LastResponseIn({"ratelimited"})
          => fpc = "try" /\ lastReq = url /\ pc # "except"

\* C5: a network error, or a payload that is an error envelope, counts one
\* try, and the fetcher then sleeps request_retry_wait_secs and stands before
\* the next request of the same URL, unless max_request_tries is exhausted.
C5_FailureIsRetried ==
    LastResponseIn({"neterr", "envelope"})
    => /\ tries = CountKind(respLog, {"error", "neterr", "envelope"})
       /\ \/ /\ fpc = "try"
             /\ sleepLog # <<>>
             /\ Last(sleepLog) = <<"retry", RetryWait>>
          \/ /\ tries >= cfg.max_tries
             /\ exc = "TooManyRequestFailures"

\* C6: a fetch stands before a request only with fewer than max_tries
\* failed requests behind it, and when max_tries attempts in a row were
\* failed requests, _get made exactly max_tries attempts, returned nothing
\* and raised TooManyRequestFailures, which left crawl() for main.
C6_ExhaustionRaises ==
    /\ fpc = "try" => CountKind(respLog, {"error"}) < cfg.max_tries
    /\ (respLog # <<>> /\ OnlyFailures /\ Len(respLog) >= cfg.max_tries)
       => /\ attempts = cfg.max_tries
          /\ tries = cfg.max_tries
          /\ fpc = "idle"
          /\ fres = NoResult
          /\ exc = "TooManyRequestFailures"
          /\ pc \in {"except", "main", "finished", "exit"}

\* the exception of the max_tries-th failed request stands in main's except
C6_Witness ==
    /\ pc = "except"
    /\ exc = "TooManyRequestFailures"
    /\ OnlyFailures
    /\ attempts = cfg.max_tries

\* C7: a 404 is returned at once as ({}, False): the tries are those of the
\* failed requests before it, no sleep follows it, and nothing is raised.
C7_NotFoundReturnsAbsent ==
    LastResponseIn({"notfound"})
    => /\ fpc = "ret"
       /\ fres = [r |-> "empty", ok |-> FALSE]
       /\ tries = CountKind(respLog, {"error"})
       /\ Len(sleepLog) = Len(respLog) - 1
       /\ pc # "except"

\* the first response of a fetch is a 404, and the fetch has returned
C7_Witness ==
    /\ Len(respLog) = 1
    /\ respLog[1].kind = "notfound"
    /\ fpc = "ret"
    /\ ~fres.ok
    /\ tries = 0
    /\ sleepLog = <<>>

\* ---------------------------------------------------- stopping and paging
\* where crawl stands in its two page loops
LoopPcs ==
    {"p_while", "p_list", "p_item", "p_detail", "p_diff", "p_linked", "p_issue",
     "p_after", "i_while", "i_list", "i_item", "i_detail", "i_after"}

\* every pull of the page at hand was dealt with: saved with its diff, unless
\* it was created outside the window or its detail or its diff was absent
PullsPageDone ==
    \A k \in PageItems(cfg.n["pulls"], page) :
        \/ ~InWindow(k)
        \/ {<<Repo, "pull", k>>, <<Repo, "diff", k>>} \subseteq store
        \/ <<"pull", "pulls", k>> \in missed
        \/ <<"diff", "pulls", k>> \in missed
\* every issue of the page at hand was dealt with: saved, unless it was
\* created outside the window, saved with a pull already, or absent
IssuesPageDone ==
    \A k \in PageItems(cfg.n["issues"], page) :
        \/ ~InWindow(k)
        \/ k \in list_issues
        \/ <<Repo, "issue", k>> \in store
        \/ <<"issue", "issues", k>> \in missed

\* C8: with the stop flag set, the for loop over a list page still runs to
\* the end of the page, every item of it being saved (unless it lies outside
\* the window, is absent, or the issue cap ends the loop, as with the flag
\* clear), and from then on no list page is asked for in this crawl.
C8_StopAfterCurrentPage ==
    /\ [](interrupted /\ pc = "p_after" /\ ~CapReached
            => idx > PageLen(cfg.n["pulls"], page) /\ PullsPageDone)
    /\ [](interrupted /\ pc = "i_after" /\ ~CapReached
            => idx > PageLen(cfg.n["issues"], page) /\ IssuesPageDone)
    /\ [][interrupted /\ pc \in LoopPcs
            => /\ iterPages' = iterPages
               /\ interrupted' \/ pc' \notin LoopPcs]_vars

\* the flag was set at an item of a pulls page not yet saved, and the page
\* has finished with that item and one after it saved
C8_Witness ==
    /\ interrupted
    /\ pc = "p_after"
    /\ stopIdx >= 1
    /\ <<Repo, "pull", (page - 1) * PerPage + stopIdx>> \in store
    /\ \E k \in PageItems(cfg.n["pulls"], page) :
          /\ k > (page - 1) * PerPage + stopIdx
          /\ <<Repo, "pull", k>> \in store

\* everything but pc, interrupted and the two counters of signals
C9_Rest ==
    <<cfg, repoIdx, startPage, endPage, searchVars, loopVars, store, pull_files,
      iterPages, missed, fetchVars, exc>>

\* C9: a SIGINT with the flag set ends the process where it stands, nothing
\* more being fetched or saved; a SIGINT with the flag clear sets the flag
\* and changes nothing else.
C9_SecondStopExits ==
    /\ [][signals' = signals + 1
            => /\ UNCHANGED C9_Rest
               /\ IF interrupted
                  THEN pc' = "exit" /\ interrupted'
                  ELSE pc' = pc /\ interrupted']_vars
    /\ [][pc # "exit"]_vars

\* the second SIGINT ended the process in the middle of a pulls page, a
\* request for a pull's diff still in flight
C9_Witness ==
    /\ pc = "exit"
    /\ signals = 2
    /\ fpc = "try"
    /\ url[1] = "diff"
    /\ idx <= PageLen(cfg.n["pulls"], page)
    /\ <<Repo, "pull", Item>> \notin store

\* C10: once a list page with fewer than per_page items was asked for, no
\* list page with a higher number is asked for in the same stream, and when
\* the for loop over such a page has ended, every item of it was dealt with.
C10_ShortPageIsLast ==
    /\ \A i, j \in 1 .. Len(iterPages) :
          (/\ i < j
           /\ iterPages[i][1] = iterPages[j][1]
           /\ PageLen(cfg.n[iterPages[i][1]], iterPages[i][2]) < PerPage)
          => iterPages[j][2] <= iterPages[i][2]
    /\ (/\ pc = "p_after"
        /\ PageLen(cfg.n["pulls"], page) < PerPage
        /\ ~CapReached)
       => idx > PageLen(cfg.n["pulls"], page) /\ PullsPageDone
    /\ (/\ pc = "i_after"
        /\ PageLen(cfg.n["issues"], page) < PerPage
        /\ ~CapReached)
       => idx > PageLen(cfg.n["issues"], page) /\ IssuesPageDone

\* the short second page of the pulls was fetched and its pull saved, and
\* crawl has gone on to the issues
C10_Witness ==
    /\ pc = "i_list"
    /\ cfg.n["pulls"] = PerPage + 1
    /\ cfg.max_issue_number < 1
    /\ <<Repo, "pull", PerPage + 1>> \in store
    /\ \E i \in 1 .. Len(iterPages) : iterPages[i] = <<"pulls", 2>>
    /\ \A i \in 1 .. Len(iterPages) :
          iterPages[i][1] = "pulls" => iterPages[i][2] <= 2

\* ------------------------------------------------------------- persistence
\* the pulls of the stream (their positions, which are their numbers)
PullNumbers == 1 .. cfg.n["pulls"]
\* the repositories of the invocation
RepoNames == { Repos[i] : i \in 1 .. Len(Repos) }
\* the fetch of a pull's detail object or of its diff has come back absent
PullFetchAbsent == pc \in {"p_detail", "p_diff"} /\ fpc = "ret" /\ ~fres.ok

\* C11: when the detail object or the diff of a pull comes back absent, the
\* crawl's next step saves nothing, leaves the memo and the counters alone
\* and stands at the next item of the same page; a pull whose detail or diff
\* was absent is not saved, and a pull is saved exactly when its diff is.
C11_AbsentPullIsSkipped ==
    /\ [][(PullFetchAbsent /\ signals' = signals)
            => /\ store' = store
               /\ list_issues' = list_issues
               /\ num_issues' = num_issues /\ num_pulls' = num_pulls
               /\ pc' = "p_item" /\ page' = page /\ idx' = idx + 1
               /\ exc' = exc]_vars
    /\ [](\A k \in PullNumbers :
            /\ \A r \in RepoNames :
                  <<r, "pull", k>> \in store <=> <<r, "diff", k>> \in store
            /\ (repoIdx <= Len(Repos)
                  /\ {<<"pull", "pulls", k>>, <<"diff", "pulls", k>>} \cap missed # {})
               => <<Repo, "pull", k>> \notin store)

\* the diff of the first pull of a page was absent, nothing of that pull was
\* saved, and the next pull of the page was saved
C11_Witness ==
    /\ repoIdx <= Len(Repos)
    /\ pc \in {"p_linked", "p_item", "p_after"}
    /\ \E k \in PageItems(cfg.n["pulls"], page) :
          /\ <<"diff", "pulls", k>> \in missed
          /\ <<Repo, "pull", k>> \notin store
          /\ <<Repo, "diff", k>> \notin store
          /\ {<<Repo, "pull", k + 1>>, <<Repo, "diff", k + 1>>} \subseteq store

\* where crawl stands in the pulls loop, and in the issues loop
PullsPcs ==
    {"p_while", "p_list", "p_item", "p_detail", "p_diff", "p_linked", "p_issue",
     "p_after"}
IssuesPcs == {"i_while", "i_list", "i_item", "i_detail", "i_after"}
\* the issue numbers saved for the repository at hand
SavedIssues == { n \in 0 .. (MaxItems + 1) : <<Repo, "issue", n>> \in store }
\* the for loop of the issues pass stands at an issue saved with a pull
AtLinkedIssue ==
    /\ pc = "i_item"
    /\ idx <= PageLen(cfg.n["issues"], page)
    /\ Item \in list_issues

\* C12: during the pulls pass the memo holds exactly the issues saved as
\* linked issues; in the issues pass, the step at an issue of the memo asks
\* for nothing and saves nothing and goes on to the next item, and no detail
\* of an issue of the memo is ever asked for.
C12_LinkedIssueIsSkipped ==
    /\ [](pc \in PullsPcs => list_issues = SavedIssues)
    /\ [](pc \in IssuesPcs => list_issues \subseteq SavedIssues)
    /\ [](pc = "i_detail" => url = <<"issue", "issues", Item>> /\ Item \notin list_issues)
    /\ [][(AtLinkedIssue /\ signals' = signals)
            => /\ store' = store
               /\ UNCHANGED fetchVars
               /\ num_issues' = num_issues
               /\ pc' = "i_item" /\ page' = page /\ idx' = idx + 1]_vars

\* the issues pass has run over page 1: issue 1 it saved itself, issue 2,
\* which pull 1 had linked and saved, it passed without saving or counting
C12_Witness ==
    /\ pc = "i_item"
    /\ page = 1
    /\ idx = 3
    /\ list_issues = {2}
    /\ InWindow(2)
    /\ {<<Repo, "issue", 1>>, <<Repo, "issue", 2>>} \subseteq store
    /\ num_issues = 1

\* item k was created in the window: start_date <= created_at <= end_date
CreatedInWindow(k) == cfg.start_date <= CreatedAt(k) /\ CreatedAt(k) <= cfg.end_date

\* C13: every saved pull was created in the window, and so was every issue
\* the issues pass saved (the saved issues that are not in the memo); the
\* detail, the diff and the linked issues of a pull, and the detail of an
\* issue, are asked for only when the item was created in the window.
C13_SavedItemsAreInWindow ==
    /\ \A r \in RepoNames : \A k \in PullNumbers :
          <<r, "pull", k>> \in store => CreatedInWindow(k)
    /\ repoIdx <= Len(Repos)
          => \A k \in SavedIssues : k \notin list_issues => CreatedInWindow(k)
    /\ pc \in {"p_detail", "p_diff", "p_linked", "p_issue", "i_detail"}
          => CreatedInWindow(Item)
    /\ (fpc # "idle" /\ url[1] \in {"pull", "diff"}) => CreatedInWindow(url[3])

\* pull 1, created before the window, was passed without a request and
\* pull 2 was saved
C13_Witness ==
    /\ pc \in PullsPcs
    /\ ~CreatedInWindow(1)
    /\ <<Repo, "pull", 1>> \notin store
    /\ <<"pull", "pulls", 1>> \notin missed
    /\ <<Repo, "pull", 2>> \in store

\* pull 1 was saved and pull 2, created after the window, was passed
\* without a request
PassedAfterWindow ==
    /\ pc = "p_after"
    /\ CreatedAt(2) > cfg.end_date
    /\ <<Repo, "pull", 1>> \in store
    /\ <<Repo, "pull", 2>> \notin store
    /\ <<"pull", "pulls", 2>> \notin missed

\* ------------------------------------------------------ boundary resolution
\* crawl is resolving boundary k by requests: the page-1 request for the
\* Link header, or a probe of the search
Resolving(k) == stage = k /\ pc \in {"hint", "probe"}

\* C14: when no start page is given for a stream and start_date is before
\* the epoch, no request is made to resolve the start page of that stream,
\* and once that boundary is resolved the start page is 1.
C14_EpochShortcut ==
    \A s \in Streams :
        (cfg.start_page[s] < 1 /\ cfg.start_date < Epoch)
        => /\ ~Resolving(StartStage(s))
           /\ (stage > StartStage(s) /\ pc # "main") => startPage[s] = 1

\* C15: when page 1 carries no rel="last" link, resolving a boundary raises
\* nothing; a start page that was not given becomes 1, an end page that was
\* not given becomes -1 (no upper bound), and the crawl reaches its page loops.
C15_HintFallback ==
    ~cfg.hint
    => /\ ~(pc = "except" /\ exc \in {"KeyError", "IndexError"} /\ stage <= 4)
       /\ pc \in LoopPcs
            => \A s \in Streams :
                  /\ cfg.start_page[s] < 1 => startPage[s] = 1
                  /\ cfg.end_page[s] < 1 => endPage[s] = -1

\* the positions in iterPages of the requests for list pages of stream s
RequestsOf(s) == { i \in 1 .. Len(iterPages) : iterPages[i][1] = s }

\* C16: a start page (an end page) given as >= 1 is never resolved by
\* requests and is what crawl uses, and the first list page the loop of the
\* stream asks for is the given start page.
C16_GivenPagesAreUsed ==
    \A s \in Streams :
        /\ cfg.start_page[s] >= 1
             => /\ ~Resolving(StartStage(s))
                /\ pc \in LoopPcs => startPage[s] = cfg.start_page[s]
                /\ RequestsOf(s) # {}
                     => iterPages[Min(RequestsOf(s))] = <<s, cfg.start_page[s]>>
        /\ cfg.end_page[s] >= 1
             => /\ ~Resolving(EndStage(s))
                /\ pc \in LoopPcs => endPage[s] = cfg.end_page[s]

\* with start page 2 given, the first request of the crawl is the one for
\* page 2 of the pulls
C16_Witness ==
    /\ pc = "p_list"
    /\ cfg.start_page["pulls"] = 2
    /\ iterPages = << <<"pulls", 2>> >>
    /\ url = <<"list", "pulls", 2>>
    /\ lastReq \in {NoUrl, url}

\* the end page of stream s was given, or the end-page search returned it
EndInForce(s) ==
    /\ pc \in LoopPcs
    /\ cfg.end_page[s] >= 1 \/ ~(cfg.end_date > Now)

\* C17: when an end page is in force for a stream, given or returned by the
\* end-page search, no list page with a higher number is asked for in the
\* loop of that stream.
C17_NoPageBeyondEnd ==
    \A s \in Streams :
        EndInForce(s) => \A i \in RequestsOf(s) : iterPages[i][2] <= endPage[s]

\* an end page of 1 or more in force is never passed
EndPageOfOneOrMoreIsKept ==
    \A s \in Streams :
        (EndInForce(s) /\ endPage[s] >= 1)
        => \A i \in RequestsOf(s) : iterPages[i][2] <= endPage[s]
\* the pulls loop has ended at the end page 1 given, a page of the stream left
StoppedAtGivenEnd ==
    /\ pc \in IssuesPcs
    /\ cfg.end_page["pulls"] = 1
    /\ cfg.n["pulls"] > PerPage
    /\ RequestsOf("pulls") # {}
    /\ \A i \in RequestsOf("pulls") : iterPages[i][2] = 1

\* ----------------------------------------------------------- the issue cap
\* C18: with max_issue_number N > 0 a crawl saves at most N issues, and with
\* N issues saved the crawl has no request in flight.
C18_CapBoundsSavedIssues ==
    (cfg.max_issue_number > 0 /\ repoIdx <= Len(Repos))
    => /\ Cardinality(SavedIssues) <= cfg.max_issue_number
       /\ Cardinality(SavedIssues) >= cfg.max_issue_number => fpc = "idle"

\* ------------------------------------------------------------ repositories
\* the repositories whose crawl has been started: those up to main's position
Started == { Repos[i] : i \in 1 .. Min({repoIdx, Len(Repos)}) }

\* C19: main goes through args.repos in order, one repository at a time:
\* only the repositories up to its position have anything saved, its position
\* moves by one and only when a crawl has returned or raised; an exception
\* of crawl (TooManyRequestFailures among them) takes main to the next
\* repository, whose crawl can then start.
C19_FailureDoesNotStopLaterRepos ==
    /\ [](\A key \in store : key[1] \in Started)
    /\ [](pc = "main" /\ repoIdx <= Len(Repos) => ENABLED MainCrawl)
    /\ [][repoIdx' # repoIdx
            => /\ pc \in {"except", "returned"}
               /\ repoIdx' = repoIdx + 1
               /\ pc' = "main"]_vars
    /\ [][(pc = "except" /\ signals' = signals)
            => pc' = "main" /\ repoIdx' = repoIdx + 1 /\ store' = store]_vars

\* the crawl of the first repository ended with TooManyRequestFailures, and
\* the crawl of the second has saved a pull
C19_Witness ==
    /\ repoIdx = 2
    /\ pc \in LoopPcs
    /\ exc = "TooManyRequestFailures"
    /\ \E k \in PullNumbers : <<Repos[2], "pull", k>> \in store
    /\ \A key \in store : key[1] = Repos[2]

\* ------------------------------------------------------------- persistence
\* C20: no step of an invocation removes a saved pull, diff or issue: the set
\* of saved keys only grows, also on the step that raises a fatal failure, on
\* the step of main that handles it, and on an interruption.
C20_SavedKeysOnlyGrow == [][store \subseteq store']_vars

\* main has handled the TooManyRequestFailures of a crawl that had saved a
\* pull with its diff, and both are still saved
C20_Witness ==
    /\ exc = "TooManyRequestFailures"
    /\ pc \in {"main", "finished"}
    /\ \E k \in 1 .. MaxItems :
         {<<Repos[1], "pull", k>>, <<Repos[1], "diff", k>>} \subseteq store

\* ------------------------------------------------------ the binary searches
\* C26: every recursive call of a boundary search is made on an interval
\* smaller than the caller's, and no search runs into the interpreter's
\* recursion limit.
C26_SearchShrinksInterval ==
    /\ [][(pc = "probe" /\ depth' = depth + 1) => hi' - lo' < hi - lo]_vars
    /\ [](\A k \in 1 .. 4 : ~Overflowed(k))

\* C27: a frame of the start search whose interval is one page returns that
\* page, or the page after it exactly when start_date is after the last item
\* of the page; a frame of the end search whose interval is one page returns
\* that page, or the page before it exactly when end_date is before the first
\* item of the page; neither calls itself again.
C27_CollapsedIntervalResult ==
    /\ [][(pc = "probe" /\ lo = hi /\ stage' = stage + 1)
            => LET s == StageStream(stage) IN
               IF StageMode(stage) = "start"
               THEN startPage'[s] =
                        IF cfg.start_date > LastDate(s, lo) THEN lo + 1 ELSE lo
               ELSE endPage'[s] =
                        IF cfg.end_date < FirstDate(s, lo) THEN lo - 1 ELSE lo]_vars
    /\ [][(pc = "probe" /\ lo = hi) => depth' <= depth]_vars

\* the start search of the pulls returned from a one-page interval with the
\* page after it, start_date being after the last pull of the page
C27_Witness ==
    /\ stage = 2
    /\ pc = "bound"
    /\ cfg.start_page["pulls"] < 1
    /\ lo = hi
    /\ cfg.start_date > LastDate("pulls", lo)
    /\ startPage["pulls"] = lo + 1

\* the end search of the pulls returned from a one-page interval it had
\* come to by a recursive call
EndCollapsedAfterRecursion ==
    /\ stage = 4
    /\ cfg.end_page["pulls"] < 1
    /\ lo = hi
    /\ depth > 1
    /\ endPage["pulls"] = lo

\* ------------------------------------------------------- absent list pages
\* a list page asked for by the page loops came back absent in this crawl
ListPageMissed == \E u \in missed : u[1] = "list"
\* no list page was asked for twice by the page loops of this crawl
NoPageTwice ==
    \A i, j \in 1 .. Len(iterPages) : i # j => iterPages[i] # iterPages[j]

\* C28: a list page that came back absent is not asked for again: the page
\* loops ask for every page of a stream once at most.
C28_AbsentListPageNotRepeated == InCrawl => NoPageTwice

\* as long as no list page came back absent no page is asked for twice
PageTwiceOnlyAfterAbsent == (InCrawl /\ ~ListPageMissed) => NoPageTwice

\* ------------------------------------------------- the flag and the passes
\* the issues loop has asked for a list page in this crawl
IssuesPageAsked == \E i \in 1 .. Len(iterPages) : iterPages[i][1] = "issues"

\* C29: once the stop flag is set in the pulls pass, no list page of the
\* issues is asked for in the rest of the crawl, however the pulls loop ends.
C29_StopInPullsSkipsIssues ==
    [](interrupted /\ pc \in PullsPcs => [](~IssuesPageAsked))

\* the flag was set in the pulls pass, the pulls loop ended on its condition
\* after a full page, and crawl returned without asking for an issues page
C29_Witness ==
    /\ pc = "returned"
    /\ interrupted
    /\ iterPages # <<>>
    /\ ~IssuesPageAsked
    /\ PageLen(cfg.n["pulls"], Last(iterPages)[2]) = PerPage
    /\ ~CapReached

\* the same with the pulls loop ended by the return after a short page
StoppedOnShortPullsPage ==
    /\ pc = "returned"
    /\ interrupted
    /\ iterPages # <<>>
    /\ ~IssuesPageAsked
    /\ PageLen(cfg.n["pulls"], Last(iterPages)[2]) < PerPage

\* crawl is resolving its page boundaries, or stands at the lines between
\* them and the pulls loop
BeforeIteration == pc \in {"bound", "hint", "probe", "init"}

\* C30: a stop flag set while crawl resolves its page boundaries is in effect
\* when the page loops begin: no list page is asked for by the loops of this
\* crawl.
C30_StopBeforeIterationIsKept ==
    [][(interrupted /\ BeforeIteration)
            => /\ iterPages' = <<>>
               /\ interrupted' \/ pc' \in {"exit", "except"}]_vars

\* a flag set before the pulls loop is in effect up to the lines before it
StopKeptUpToInit ==
    [][(interrupted /\ BeforeIteration /\ pc # "init")
            => interrupted' \/ pc' \in {"exit", "except"}]_vars

\* ------------------------------------------------------------ linked issues
\* the places of the closing references to issues of full_name in a body
ClosingRefs(body, full_name) ==
    IF body.none THEN {}
    ELSE { i \in 1 .. Len(body.text) : Matches(body.text[i], full_name) }
\* the j-th smallest element of a set of numbers
Nth(S, j) == CHOOSE x \in S : Cardinality({ y \in S : y <= x }) = j
\* the issue numbers the body of pull k refers to, one for every closing
\* reference, in the order of the references
ReferencedInOrder(k, full_name) ==
    LET refs == ClosingRefs(Body(k, full_name), full_name) IN
    [ j \in 1 .. Cardinality(refs) |->
        ToInt(Body(k, full_name).text[Nth(refs, j)].digits) ]

SectionsDone == line_no = Len(diff)
\* the places of the "diff --git" lines of a diff
FilePlaces(d) == { i \in 1 .. Len(d) : FileMatch(d[i]) }
\* the section of path y: the first in the list whose prefix y starts with,
\* the catch-all when there is none
SectionOfPath(y) ==
    IF \E i \in 1 .. Len(Sections) - 1 : StartsWith(y, Sections[i])
    THEN CHOOSE i \in 1 .. Len(Sections) - 1 :
            /\ StartsWith(y, Sections[i])
            /\ \A j \in 1 .. i - 1 : ~StartsWith(y, Sections[j])
    ELSE Len(Sections)
\* line i of d lies in a hunk: after an "@@" line of the file at hand
InHunk(d, i) ==
    \E j \in 1 .. i - 1 :
        d[j] = HunkLine /\ \A k \in j .. i : ~FileMatch(d[k])
\* line i of d is a file-identity line: "--- a/..." or "+++ b/..." outside
\* the hunks
IsAnchor(d, i) ==
    /\ d[i][1] \in {"---", "+++"}
    /\ d[i][2] = " "
    /\ d[i][3] \in {"a/", "b/"}
    /\ ~InHunk(d, i)
\* the added and the removed lines of d: those that begin with "+" or "-"
\* and are not file-identity lines
AddedPlaces(d) ==
    { i \in 1 .. Len(d) : d[i][1] \in {"+", "+++"} /\ ~IsAnchor(d, i) }
RemovedPlaces(d) ==
    { i \in 1 .. Len(d) : d[i][1] \in {"-", "---"} /\ ~IsAnchor(d, i) }
\* the section of the file line i of d belongs to: that of the last
\* "diff --git" line before it, the catch-all before the first
SectionAt(d, i) ==
    IF \E h \in FilePlaces(d) : h < i
    THEN SectionOfPath(FileGroup(d[Max({ h \in FilePlaces(d) : h < i })]))
    ELSE Len(Sections)
RECURSIVE SumOver(_, _, _)
\* the sum of attribute a over the first n sections
SumOver(data, a, n) == IF n = 0 THEN 0 ELSE SumOver(data, a, n - 1) + data[n][a]
\* a removed or added line in a hunk has the text of a file-identity line
Lookalike(d) == \E i \in 1 .. Len(d) : AnchorMatch(d[i]) /\ InHunk(d, i)
\* the "diff --git" lines of one path follow one another
FilesAdjacent(d) ==
    \A h1, h2 \in FilePlaces(d) :
        (h1 < h2 /\ FileGroup(d[h1]) = FileGroup(d[h2]))
            => \A h \in FilePlaces(d) :
                   (h1 < h /\ h < h2) => FileGroup(d[h]) = FileGroup(d[h1])

\* the distinct paths of d that belong to section sec
PathsOf(d, sec) ==
    { FileGroup(d[h]) : h \in { x \in FilePlaces(d) : SectionOfPath(FileGroup(d[x])) = sec } }

\* C21: after the attribution of a diff, changed_files of every section is
\* the number of distinct paths of the diff that belong to the section.
C21_ChangedFilesCountsDistinctPaths ==
    SectionsDone
        => \A sec \in 1 .. Len(Sections) :
               section_data[sec].changed_files = Cardinality(PathsOf(diff, sec))

\* it is, when the "diff --git" lines of one path follow one another
ChangedFilesRightWhenAdjacent ==
    (SectionsDone /\ FilesAdjacent(diff))
        => \A sec \in 1 .. Len(Sections) :
               section_data[sec].changed_files = Cardinality(PathsOf(diff, sec))

\* C22: after the attribution of a diff, the additions of all sections sum to
\* the number of added lines of the diff and the deletions to the number of
\* its removed lines.
C22_TalliesSumToChangedLines ==
    SectionsDone
        => /\ SumOver(section_data, "additions", Len(Sections))
                = Cardinality(AddedPlaces(diff))
           /\ SumOver(section_data, "deletions", Len(Sections))
                = Cardinality(RemovedPlaces(diff))

\* they do, when no line in a hunk has the text of a file-identity line
TalliesRightWithoutLookalike ==
    (SectionsDone /\ ~Lookalike(diff))
        => /\ SumOver(section_data, "additions", Len(Sections))
                = Cardinality(AddedPlaces(diff))
           /\ SumOver(section_data, "deletions", Len(Sections))
                = Cardinality(RemovedPlaces(diff))

\* every section has the added and the removed lines of its files, and has
\* a file counted exactly when a path of the diff belongs to it
AttributedBySection ==
    \A sec \in 1 .. Len(Sections) :
        /\ section_data[sec].changed_files >= 1 <=> PathsOf(diff, sec) # {}
        /\ section_data[sec].additions
             = Cardinality({ i \in AddedPlaces(diff) : SectionAt(diff, i) = sec })
        /\ section_data[sec].deletions
             = Cardinality({ i \in RemovedPlaces(diff) : SectionAt(diff, i) = sec })

\* C23: after the attribution of a diff, every file of a "diff --git a/X b/Y"
\* line is counted in the first section whose prefix Y starts with (in the
\* catch-all when there is none), and the added and removed lines up to the
\* next such line are tallied in that section.
C23_FilesGoToFirstMatchingSection == SectionsDone => AttributedBySection

\* they are, when no line in a hunk has the text of a file-identity line
AttributionRightWithoutLookalike ==
    (SectionsDone /\ ~Lookalike(diff)) => AttributedBySection

\* a renamed file (src/a to test/b) with an added line was attributed to
\* test/, the section of the new path
RenameAttributedToNewPath ==
    /\ SectionsDone
    /\ Len(diff) = 3
    /\ diff[1] = FileLine(SrcA, TestB)
    /\ diff[3] = AddedLine
    /\ section_data[8] = [changed_files |-> 1, additions |-> 1, deletions |-> 0]

\* ------------------------------------------------------------ the row limit
\* created_at lies within the dates of the run
InDates(c) == wargs.start_date <= c /\ c <= wargs.end_date
\* the pulls of repository r that write_dataset reads on
EligiblePulls(r) == { n \in DOMAIN r.pulls : InDates(r.pulls[n].created_at) }
\* the rows of pulls with a linked issue that a run without limit writes for
\* r: one for every place of a linked_issue_numbers list whose issue lies
\* within the dates
LinkRows(r) ==
    UNION { { <<n, k>> : k \in { x \in 1 .. Len(r.pulls[n].linked_issue_numbers) :
                /\ r.pulls[n].linked_issue_numbers[x] \in DOMAIN r.issues
                /\ InDates(r.issues[r.pulls[n].linked_issue_numbers[x]].created_at) } } :
            n \in EligiblePulls(r) }
\* and the rows of issues alone
IssueRows(r) ==
    { m \in DOMAIN r.issues :
        /\ InDates(r.issues[m].created_at)
        /\ ~\E nk \in LinkRows(r) : r.pulls[nk[1]].linked_issue_numbers[nk[2]] = m }
RECURSIVE EligibleRows(_, _)
\* the rows a run without limit writes for the first n repositories
EligibleRows(dir, n) ==
    IF n = 0 THEN 0
    ELSE EligibleRows(dir, n - 1)
            + Cardinality(LinkRows(dir[n])) + Cardinality(IssueRows(dir[n]))

\* C25: with limit_rows > 0 no more than limit_rows data rows are written,
\* and write_dataset returns with the row that reaches the limit; a run that
\* comes to its end, and every run with limit_rows <= 0 does unless a file
\* is missing, has written every eligible row.
C25_LimitRowsBoundsTheRows ==
    /\ wargs.limit_rows > 0
         => /\ Len(rows) <= wargs.limit_rows
            /\ Len(rows) = wargs.limit_rows => wpc = "w_limit"
    /\ wargs.limit_rows <= 0 => wpc # "w_limit"
    /\ wpc = "w_finished"
         => Len(rows) = EligibleRows(wargs.src_dir, Len(wargs.src_dir))

\* a run with limit_rows = 2 over two repositories with six eligible rows
\* has returned with two rows written
C25_Witness ==
    /\ wargs.limit_rows = 2
    /\ wpc = "w_limit"
    /\ Len(rows) = 2
    /\ Len(wargs.src_dir) = 2
    /\ EligibleRows(wargs.src_dir, 2) = 6

\* a run with limit_rows = 0 has written the six eligible rows of two
\* repositories
UnlimitedRunWritesAll ==
    /\ wargs.limit_rows = 0
    /\ wpc = "w_finished"
    /\ Len(wargs.src_dir) = 2
    /\ Len(rows) = 6

\* ------------------------------------------------------------------- C31
\* the linked issue numbers written into the pull files of repository r
\* that have no issue file under r
MissingLinked(r) ==
    { n \in UNION { { pull_files[key][j] : j \in 1 .. Len(pull_files[key]) } :
                      key \in { k \in DOMAIN pull_files : k[1] = r } } :
        <<r, "issue", n>> \notin store }

\* C31: when crawl has returned (no exception, no exit), every number in
\* the linked_issue_numbers of every pull file of the repository has an
\* issue file of the same repository.
C31_LinkedIssuesArePersisted ==
    pc = "returned" => MissingLinked(Repo) = {}

\* when crawl has returned, a linked number without an issue file is one
\* whose issue the service did not give (the "if not ok: continue" of the
\* loop over linked_issue_numbers)
LinkedIssueMissingOnlyWhenAbsent ==
    pc = "returned"
        => \A n \in MissingLinked(Repo) : <<"linked", "issues", n>> \in missed

\* crawl has returned with a pull file that names a linked issue, and that
\* issue has no file
ReturnedWithMissingLinkedIssue ==
    /\ pc = "returned"
    /\ MissingLinked(Repo) # {}

\* write_dataset has opened the issue file of a linked number and the file
\* is not there (FileNotFoundError)
ExportReadsMissingIssue ==
    /\ wpc = "w_error"
    /\ pull.linked_issue_numbers[wl] \notin DOMAIN WRepo.issues

====
